---------------------------- MODULE Spec2Model ----------------------------
(***************************************************************************)
(* Model of the AI-Employee orchestrator (Bronze Tier/orchestrator.py):    *)
(* the polling scheduler run_orchestrator, the completion engine           *)
(* execute_with_retry with its cycle/attempt loops, the tier gate of       *)
(* process_task, and the task files of the vault they read and write.      *)
(*                                                                         *)
(* A task file is a frontmatter dict (meta) followed by a body, kept as    *)
(* the sequence of blocks the code appends to it.  Free text is taken from *)
(* a few sample strings; KeywordsIn gives the tier keywords each contains. *)
(* Timestamps are left out.                                                *)
(*                                                                         *)
(* Spec follows the engine on one or two triaged tasks.  OpsSpec adds the  *)
(* Human Operator, who sets a blocked or failed task back to ready, and    *)
(* the restart of the scheduler.  ListSpec polls listings of files that    *)
(* differ in priority, in type and in status.  LifeSpec starts before the  *)
(* pre-flight checks and adds a failing poll and the manual interrupt.     *)
(* PathSpec applies the collision-safe naming to directories that already  *)
(* hold the name; TierSpec applies detect_tier to single files.  FrontSpec *)
(* and RoundSpec follow the frontmatter of a file as text, character by    *)
(* character, through update_task_frontmatter, render and parse.           *)
(* WatchSpec runs the inbox watcher (filesystem_watcher.py) beside the     *)
(* scheduler on one vault, FairWatchSpec with the scheduler never          *)
(* suspended for ever; DedupSpec runs the watcher by itself on files that  *)
(* are saved again.  ResumeSpec adds a crash of the process and its        *)
(* relaunch, HandbookSpec the removal of Company_Handbook.md while the     *)
(* scheduler runs, LateSpec a write of status done from outside the        *)
(* engine.  FairSpec is the engine on one task under fairness.  RaceSpec   *)
(* splits the creation of a note into the choice of the path and the       *)
(* write, for the scheduler and the watcher as two processes.              *)
(***************************************************************************)
EXTENDS Integers, Sequences, FiniteSets, TLC

\* ------------------------------------------------------------------ bounds
NumTasks == 2        \* at most this many task files are in /Needs_Action at the start
MaxSwitches == 1     \* how often the Executor's answer may change while one task is
                     \* alone in the vault (with several tasks it answers the same
                     \* every time)
NumListed == 4       \* files in /Needs_Action when listings that differ in priority are polled
NumFiltered == 3     \* files in /Needs_Action when listings that differ in status are polled
MaxRestarts == 1     \* how often the scheduler is stopped and started again
MaxEdits == 1        \* how often the Human Operator sets a task back to ready
MaxFaults == 1       \* how often a poll fails before it returns its list
MaxGap == 3          \* the highest suffix that may be free below the taken ones
MaxCalls == 2        \* how many files are created at a safe path in one directory
MaxLen == 3          \* the length of a frontmatter value, in characters
MaxUpdates == 3      \* how many frontmatter updates one file receives
NumInbox == 2        \* at most this many files are dropped into /Inbox
MaxMtime == 1        \* an inbox file is saved again until its modification time is this

\* ------------------------------------------------------- configuration
MAX_RETRIES == 2
MAX_COMPLETION_CYCLES == 10

PRIORITY_ORDER(p) ==
  CASE p = "P0" -> 0 [] p = "P1" -> 1 [] p = "P2" -> 2 [] p = "P3" -> 3 [] OTHER -> 2

TIER_2_KEYWORDS ==
  { "install", "deploy", "execute code", "modify config", "run script",
    "change environment", "alter system", "modify production" }

TIER_3_KEYWORDS ==
  { "send email", "send message", "slack", "webhook", "api call",
    "payment", "transfer", "invoice", "financial", "publish",
    "external", "notify client", "sms", "push notification" }

\* ------------------------------------------------------------ sample text
\* The tier keywords that occur in a sample text (Python's `keyword in text`).
KeywordsIn(text) ==
  CASE text = "please install the new build"       -> { "install" }
    [] text = "send email to the customer"         -> { "send email" }
    [] text = "deploy it, then publish the notes"  -> { "deploy", "publish" }
    [] text = "settle the payment"                 -> { "payment" }
    [] text = "Please DEPLOY it today"             -> { "deploy" }
    [] OTHER                                       -> {}

BodyTexts ==
  { "summarise the meeting", "please install the new build",
    "send email to the customer", "deploy it, then publish the notes" }

ExecTexts == { "None", "settle the payment" }

\* The file names of the tasks, in the order the directory lists them.
TaskNames ==
  << "a.md", "b.md", "c.md", "d.md", "e.md", "f.md",
     "2026-11-05_report.md", "2026-11-05_report---final.md",
     "ESCALATION_2026-11-05_report.md", "ESCALATION_2026-11-05_report---final.md" >>
Listed(n) == { TaskNames[i] : i \in 1..n }
Tasks == Listed(NumTasks)

Absent == "<absent>"

\* dict.get(key, default)
Get(d, key, default) == IF key \in DOMAIN d THEN d[key] ELSE default

\* dict.update(updates)
DictUpdate(d, updates) ==
  [k \in (DOMAIN d) \cup (DOMAIN updates) |->
     IF k \in DOMAIN updates THEN updates[k] ELSE d[k]]


\* ------------------------------------------------------------- task files
\* One block of a task file's body.  kind is "text" (the original content),
\* "history_header" (the "## Transition History" table head), "row" (one
\* table row) or "result" (an "## Orchestrator Result" section).
Block(kind, from, to, action, by, text) ==
  [kind |-> kind, from |-> from, to |-> to, action |-> action, by |-> by, text |-> text]

TextBlock(text)   == Block("text", "", "", "", "", text)
HistoryHeader     == Block("history_header", "", "", "", "", "")
Row(from, to, action, by) == Block("row", from, to, action, by, "")
ResultSection(status, text) == Block("result", "", "", status, "", text)

\* The task file filesystem_watcher.create_needs_action_task writes.
create_needs_action_task(priority, classification, original_content) ==
  [ meta |-> [ k \in {"status", "priority", "classification", "processed_by"} |->
               CASE k = "status"         -> "ready"
                 [] k = "priority"       -> priority
                 [] k = "classification" -> classification
                 [] OTHER                -> "SK-010" ],
    body |-> << TextBlock(original_content), HistoryHeader,
                Row("/Inbox", "/Needs_Action", "triage", "SK-010 via filesystem_watcher") >> ]

\* The inbox files of the model: what the watcher triaged before the run.
TaskKinds ==
  { [body |-> "summarise the meeting",             classification |-> "task", priority |-> "P2"],
    [body |-> "summarise the meeting",             classification |-> "plan", priority |-> "P0"],
    [body |-> "please install the new build",      classification |-> "task", priority |-> "P1"],
    [body |-> "send email to the customer",        classification |-> "task", priority |-> "P3"],
    [body |-> "deploy it, then publish the notes", classification |-> "task", priority |-> "P2"] }

\* str.lower() on the status values that occur.
Lower(s) == CASE s = "Done" -> "done" [] s = "DONE" -> "done" [] OTHER -> s

\* The set of a sequence's elements.
Range(seq) == { seq[i] : i \in 1..Len(seq) }

\* The tier keywords found in a file's text: frontmatter values and body.
ContentKeywords(content) ==
  UNION { KeywordsIn(content.meta[k]) : k \in DOMAIN content.meta }
  \cup UNION { KeywordsIn(b.text) : b \in Range(content.body) }

\* parse_frontmatter returns the pair (metadata, body), in this order.
parse_frontmatter(content) ==
  << [type |-> "dict", value |-> content.meta],
     [type |-> "str",  value |-> content.body] >>

\* Whether obj.get(...) works: a dict has .get, a str raises AttributeError.
HasGet(obj) == obj.type = "dict"

update_task_frontmatter(na, t, updates) ==
  LET metadata == parse_frontmatter(na[t])[1].value
      body     == parse_frontmatter(na[t])[2].value
  IN  [na EXCEPT ![t] = [meta |-> DictUpdate(metadata, updates), body |-> body]]

\* An append that puts the new row at the top of the table.
append_transition_history_AtTop(na, t, from_folder, to_folder, action, by) ==
  LET body == na[t].body
      row  == Row(from_folder, to_folder, action, by)
      i    == CHOOSE n \in 1..Len(body) : body[n] = HistoryHeader
  IN  IF HistoryHeader \in Range(body)
        THEN [na EXCEPT ![t].body = SubSeq(body, 1, i) \o << row >> \o SubSeq(body, i + 1, Len(body))]
        ELSE [na EXCEPT ![t].body = Append(Append(@, HistoryHeader), row)]

append_transition_history(na, t, from_folder, to_folder, action, by) ==
  LET content == na[t]
      row     == Row(from_folder, to_folder, action, by)
  IN  IF HistoryHeader \in Range(content.body)
        THEN [na EXCEPT ![t].body = Append(@, row)]
        ELSE [na EXCEPT ![t].body = Append(Append(@, HistoryHeader), row)]

\* The rows of the Transition History, in file order.
HistoryOf(content) == SelectSeq(content.body, LAMBDA b : b.kind = "row")

\* A completion check that also takes an unfinished status for done.
is_task_done_Lenient(na, t) ==
  IF t \notin DOMAIN na THEN FALSE
  ELSE Lower(Get(parse_frontmatter(na[t])[1].value, "status", ""))
         \in {"done", "in_progress", "completed", "success"}

is_task_done(na, t) ==
  IF t \notin DOMAIN na THEN FALSE
  ELSE LET metadata == parse_frontmatter(na[t])[1].value
       IN  Lower(Get(metadata, "status", "")) = "done"

\* A tier detection that gives plans and skills Tier 0.
detect_tier_NoTier1(metadata, content) ==
  LET content_lower == ContentKeywords(content)
  IN  IF \E keyword \in TIER_3_KEYWORDS : keyword \in content_lower THEN 3
      ELSE IF \E keyword \in TIER_2_KEYWORDS : keyword \in content_lower THEN 2
      ELSE 0

\* A tier detection that looks for the Tier-2 keywords first.
detect_tier_Tier2First(metadata, content) ==
  LET content_lower == ContentKeywords(content)
  IN  IF \E keyword \in TIER_2_KEYWORDS : keyword \in content_lower THEN 2
      ELSE IF \E keyword \in TIER_3_KEYWORDS : keyword \in content_lower THEN 3
      ELSE IF Get(metadata, "classification", Absent) \in {"plan", "skill"} THEN 1
      ELSE 0

detect_tier(metadata, content) ==
  LET content_lower == ContentKeywords(content)
  IN  IF \E keyword \in TIER_3_KEYWORDS : keyword \in content_lower THEN 3
      ELSE IF \E keyword \in TIER_2_KEYWORDS : keyword \in content_lower THEN 2
      ELSE IF Get(metadata, "classification", Absent) \in {"plan", "skill"} THEN 1
      ELSE 0

\* A gate that halts Tier 3 only.
TierHalts_Tier3Only(tier) == tier >= 3

\* process_task: `if tier >= 2` halts the task.
TierHalts(tier) == tier >= 2

\* A halt that escalates every tier as E3.
HaltSeverity_AlwaysE3(tier) == "E3"

\* process_task: severity of the escalation written at a tier halt.
HaltSeverity(tier) == IF tier = 2 THEN "E2" ELSE "E3"

write_escalation(esc, task_name, severity) ==
  Append(esc, [task_ref |-> task_name, severity |-> severity, status |-> "awaiting_human"])

write_audit_log(lg, task_ref, status, category) ==
  Append(lg, [task_ref |-> task_ref, status |-> status, category |-> category])


\* A directory is a function from paths to file contents; the path
\* << name, 1 >> is the plain name, << name, c >> is stem_c.ext.
\* get_safe_path: the plain name if free, else the first free suffix
\* _2 .. _100, else RuntimeError (Overflow).
Overflow == << "<collision overflow>", 0 >>

\* A get_safe_path that returns the last free suffix.
get_safe_path_LastFree(directory, filename) ==
  IF << filename, 1 >> \notin DOMAIN directory THEN << filename, 1 >>
  ELSE IF \E counter \in 2..100 : << filename, counter >> \notin DOMAIN directory
       THEN << filename,
               CHOOSE counter \in 2..100 :
                 /\ << filename, counter >> \notin DOMAIN directory
                 /\ \A c \in (counter + 1)..100 : << filename, c >> \in DOMAIN directory >>
       ELSE Overflow

get_safe_path(directory, filename) ==
  IF << filename, 1 >> \notin DOMAIN directory THEN << filename, 1 >>
  ELSE IF \E counter \in 2..100 : << filename, counter >> \notin DOMAIN directory
       THEN << filename,
               CHOOSE counter \in 2..100 :
                 /\ << filename, counter >> \notin DOMAIN directory
                 /\ \A c \in 2..(counter - 1) : << filename, c >> \in DOMAIN directory >>
       ELSE Overflow

\* filesystem_watcher.get_safe_filename: the plain name if free, else the
\* loop `while True` from counter 2, raising once counter exceeds 100.
RECURSIVE safe_filename_loop(_, _, _)
safe_filename_loop(directory, base_name, counter) ==
  IF << base_name, counter >> \notin DOMAIN directory THEN << base_name, counter >>
  ELSE IF counter + 1 > 100 THEN Overflow
  ELSE safe_filename_loop(directory, base_name, counter + 1)

get_safe_filename(directory, base_name) ==
  IF << base_name, 1 >> \notin DOMAIN directory THEN << base_name, 1 >>
  ELSE safe_filename_loop(directory, base_name, 2)

\* A filter that lets failed and blocked files through.
Eligible_RetriesGivenUp(content) ==
  LET metadata == parse_frontmatter(content)[1].value
  IN  /\ Get(metadata, "type", Absent) # "escalation"
      /\ Lower(Get(metadata, "status", "ready")) \notin
           {"done", "in_progress", "completed", "rejected"}

\* A filter that compares the status as it is written, without lower().
Eligible_ExactCase(content) ==
  LET metadata == parse_frontmatter(content)[1].value
  IN  /\ Get(metadata, "type", Absent) # "escalation"
      /\ Get(metadata, "status", "ready") \notin
           {"done", "in_progress", "completed", "blocked", "failed", "rejected"}

\* get_pending_tasks: the listed files that are tasks to process, stably
\* sorted by priority rank.
Eligible(content) ==
  LET metadata == parse_frontmatter(content)[1].value
  IN  /\ Get(metadata, "type", Absent) # "escalation"
      /\ Lower(Get(metadata, "status", "ready")) \notin
           {"done", "in_progress", "completed", "blocked", "failed", "rejected"}

Rank(content) == PRIORITY_ORDER(Get(parse_frontmatter(content)[1].value, "priority", "P2"))

\* A listing that is returned as the directory gave it, unsorted.
get_pending_tasks_ListingOrder(na) ==
  SelectSeq(TaskNames, LAMBDA t : t \in DOMAIN na /\ Eligible(na[t]))

\* A listing that returns one task for each poll.
get_pending_tasks_FirstOnly(na) ==
  LET listing == SelectSeq(TaskNames, LAMBDA t : t \in DOMAIN na /\ Eligible(na[t]))
  IN  IF listing = << >> THEN << >> ELSE << Head(listing) >>

get_pending_tasks(na) ==
  LET listing == SelectSeq(TaskNames, LAMBDA t : t \in DOMAIN na /\ Eligible(na[t]))
      bucket(r) == SelectSeq(listing, LAMBDA t : Rank(na[t]) = r)
  IN  bucket(0) \o bucket(1) \o bucket(2) \o bucket(3)

\* complete_task: done_path = get_safe_path(DONE_DIR, name); shutil.move.
move_to_done(na, dn, t) ==
  LET done_path == get_safe_path(dn, t)
  IN  IF done_path = Overflow
        THEN [na |-> na, dn |-> dn, raised |-> TRUE]
        ELSE [na |-> [x \in (DOMAIN na) \ {t} |-> na[x]],
              dn |-> [x \in (DOMAIN dn) \cup {done_path} |->
                        IF x = done_path THEN na[t] ELSE dn[x]],
              raised |-> FALSE]

\* complete_task up to its return or its first uncaught exception.  The
\* reflection step unpacks parse_frontmatter's pair as
\* (content_after_update, metadata) and then calls metadata.get.
complete_task(na, dn, t, result, total_cycles) ==
  LET na1 == update_task_frontmatter(na, t,
               [k \in {"status", "completed", "completion_cycles", "result_summary"} |->
                  CASE k = "status"            -> "done"
                    [] k = "completed"         -> "<now>"
                    [] k = "completion_cycles" -> ToString(total_cycles)
                    [] OTHER                   -> result.text])
      na2 == append_transition_history(na1, t, "/Needs_Action", "/Done", "complete", "orchestrator")
      na3 == [na2 EXCEPT ![t].body = Append(@, ResultSection(result.status, result.text))]
      content_after_update == parse_frontmatter(na3[t])[1]
      metadata             == parse_frontmatter(na3[t])[2]
  IN  IF ~HasGet(metadata)
        THEN [na |-> na3, dn |-> dn, raised |-> TRUE]
        ELSE move_to_done(na3, dn, t)

\* A fail_task that escalates E4 only.
Escalates_E4Only(severity) == severity = "E4"

\* fail_task: `if severity in ("E3", "E4")` writes the escalation.
Escalates(severity) == severity \in {"E3", "E4"}


\* A fail_task that escalates and leaves the task file as it is.
fail_task_KeepsStatus(na, esc, t, error_msg, severity, attempts) ==
  [na  |-> na,
   esc |-> IF Escalates(severity) THEN write_escalation(esc, t, severity) ELSE esc]

\* fail_task: status failed, a "fail" row, an escalation for E3 and E4.
fail_task(na, esc, t, error_msg, severity, attempts) ==
  LET na1 == update_task_frontmatter(na, t,
               [k \in {"status", "error", "attempts"} |->
                  CASE k = "status" -> "failed"
                    [] k = "error"  -> error_msg
                    [] OTHER        -> ToString(attempts)])
      na2 == append_transition_history(na1, t, "/Needs_Action", "/Needs_Action",
                                       "fail (" \o severity \o ")", "orchestrator")
  IN  [na  |-> na2,
       esc |-> IF Escalates(severity) THEN write_escalation(esc, t, severity) ELSE esc]

\* An attempt loop that allows one attempt more per cycle.
RetryLeft_OneMore(a) == a < MAX_RETRIES + 2

\* A retry test that gives up one attempt early.
RetryLeft_OneShort(a) == a < MAX_RETRIES

\* execute_with_retry: `if attempt < max_attempts` (retry within the cycle).
RetryLeft(a) == a < MAX_RETRIES + 1

\* A cycle loop that stops one cycle early.
CyclesLeft_OneShort(c) == c < MAX_COMPLETION_CYCLES - 1

\* execute_with_retry: `for cycle in range(1, MAX_COMPLETION_CYCLES + 1)`.
CyclesLeft(c) == c < MAX_COMPLETION_CYCLES

\* ------------------------------------------------------------ the Executor
\* What one invocation attempt yields: a result dict of invoke_claude, or an
\* exception raised while the prompt is prepared (a file that cannot be read).
NoAnswer == [status |-> "none", text |-> ""]
Raise    == [status |-> "raise", text |-> "OSError"]
Answers ==
  { [status |-> st, text |-> x] : st \in {"done", "in_progress"}, x \in ExecTexts }
  \cup { [status |-> "failed", text |-> "API call failed"], Raise }

\* last_result = {} before the first result.
NoResult == [status |-> "unknown", text |-> "N/A"]

VARIABLES
  needs_action,     \* /Needs_Action: task file name -> file content
  done_dir,         \* /Done: <<file name, suffix counter>> -> file content
  escalations,      \* the ESCALATION_*.md notes written, in order
  logs,             \* the audit logs written to /Logs, in order
  session_failed,   \* run_orchestrator's session_failed
  tasks_completed,  \* run_orchestrator's tasks_completed
  pending,          \* the rest of the current poll's pending list
  pc,               \* where run_orchestrator / execute_with_retry stands
  task,             \* the task execute_with_retry is running on
  cycle, attempt,   \* execute_with_retry's loop counters
  last_result, last_error,
  invocations,      \* per task: calls of invoke_claude so far
  cycles_begun,     \* per task: completion cycles entered so far
  completions,      \* calls of complete_task: task, persisted status at entry, call site
  disposition,      \* per task: how execute_with_retry ended
  answer, switches, \* the Executor's latest answer and the changes of answer counted
  last_poll,        \* the latest get_pending_tasks call: the store it read, what it returned
  dispatched,       \* the tasks passed to execute_with_retry in the current poll, in order
  started,          \* the tasks passed to execute_with_retry since the scheduler started
  restarts,         \* how often the scheduler was started again
  prior_failed,     \* session_failed as it was when the scheduler last stopped
  edits,            \* how often the Human Operator set a task back to ready
  handbook,         \* whether Company_Handbook.md exists
  interrupted,      \* whether a KeyboardInterrupt was delivered to the loop
  faults,           \* how often a poll raised before it returned its list
  inbox,            \* /Inbox: file name -> what the file is like
  processed,        \* run_watcher's processed: the inbox files it has dealt with
  handled,          \* the (name, mtime) keys run_watcher passed to process_file, in order
  chosen,           \* per process: the path it found free and has not written yet
  bench,            \* what a function examined by itself is applied to
  ret               \* what that function returned last

vars == << needs_action, done_dir, escalations, logs, session_failed, tasks_completed,
           pending, pc, task, cycle, attempt, last_result, last_error,
           invocations, cycles_begun, completions, disposition, answer, switches,
           last_poll, dispatched, started, restarts, prior_failed, edits,
           handbook, interrupted, faults, inbox, processed, handled, chosen, bench, ret >>

store  == << needs_action, done_dir, escalations, logs >>
loop   == << cycle, attempt, last_result, last_error >>
ghosts == << invocations, cycles_begun, completions, disposition >>
env    == << answer, switches >>
polls  == << last_poll, dispatched, started >>
watch  == << inbox, processed, handled >>
life   == << handbook, interrupted, faults, watch, chosen >>
calls  == << bench, ret >>
world  == << restarts, prior_failed, edits, life, calls >>

\* No get_pending_tasks call yet.
NoPoll == [polled |-> FALSE, again |-> FALSE, store |-> << >>, result |-> << >>]

\* No function is examined by itself.
NoCall == [fn |-> "none", calls |-> 0]
\* Neither process stands between the choice of a path and the write to it.
NoPath == << "<none>", 0 >>
NoChoice == [p \in {"orchestrator", "watcher"} |-> NoPath]
Aside ==
  /\ bench = << >> /\ ret = NoCall /\ chosen = NoChoice
  /\ inbox = << >> /\ processed = {} /\ handled = << >>

\* The process as it is launched, with `names` as the files the observers
\* follow: nothing is written yet, run_orchestrator's locals are as it
\* first binds them.
Launched(names) ==
  /\ escalations = << >>
  /\ session_failed = {}
  /\ tasks_completed = 0
  /\ pending = << >>
  /\ task = TaskNames[1]
  /\ cycle = 1
  /\ attempt = 1
  /\ last_result = NoResult
  /\ last_error = ""
  /\ invocations = [t \in names |-> 0]
  /\ cycles_begun = [t \in names |-> 0]
  /\ completions = {}
  /\ disposition = [t \in names |-> "none"]
  /\ answer = NoAnswer
  /\ last_poll = NoPoll
  /\ dispatched = << >>
  /\ started = {}
  /\ restarts = 0
  /\ prior_failed = {}
  /\ edits = 0
  /\ interrupted = FALSE
  /\ faults = 0

\* run_orchestrator up to its first poll, the handbook being in place.
StartUp(names) ==
  /\ Launched(names)
  /\ Aside
  /\ done_dir = << >>
  /\ handbook = TRUE
  /\ logs = write_audit_log(<< >>, "orchestrator", "success", "orchestrator-lifecycle")
  /\ pc = "poll"

Init ==
  /\ \E n \in 1..NumTasks :
       /\ needs_action \in
            { [t \in Listed(n) |->
                 create_needs_action_task(k[t].priority, k[t].classification, k[t].body)] :
              k \in [Listed(n) -> TaskKinds] }
       /\ switches = IF n = 1 THEN 0 ELSE MaxSwitches
  /\ StartUp(Tasks)

\* A poll that claims what it returns by marking it in_progress.
Poll_Claiming ==
  /\ pc = "poll"
  /\ pending' = get_pending_tasks(needs_action)
  /\ pc' = "dispatch"
  /\ needs_action' =
       [t \in DOMAIN needs_action |->
          IF t \in Range(get_pending_tasks(needs_action))
            THEN [needs_action[t] EXCEPT !.meta =
                    DictUpdate(@, [k \in {"status"} |-> "in_progress"])]
            ELSE needs_action[t]]
  /\ last_poll' = [polled |-> TRUE,
                   again  |-> last_poll.polled /\ last_poll.store = needs_action,
                   store  |-> needs_action,
                   result |-> get_pending_tasks(needs_action)]
  /\ dispatched' = << >>
  /\ UNCHANGED << done_dir, escalations, logs, session_failed, tasks_completed, task, loop,
                  ghosts, env, started, world >>

\* run_orchestrator: pending = get_pending_tasks()
Poll ==
  /\ pc = "poll"
  /\ pending' = get_pending_tasks(needs_action)
  /\ pc' = "dispatch"
  /\ last_poll' = [polled |-> TRUE,
                   again  |-> last_poll.polled /\ last_poll.store = needs_action,
                   store  |-> needs_action,
                   result |-> get_pending_tasks(needs_action)]
  /\ dispatched' = << >>
  /\ UNCHANGED << store, session_failed, tasks_completed, task, loop, ghosts, env,
                  started, world >>

\* A for loop that skips no task.
SessionSkips_Never(task_name, failed) == FALSE

\* run_orchestrator: `if task_name in session_failed: continue`.
SessionSkips(task_name, failed) == task_name \in failed

\* run_orchestrator: the next element of `for file_path, ... in pending`,
\* skipped if in session_failed, else execute_with_retry begins.
Dispatch ==
  /\ pc = "dispatch"
  /\ pending # << >>
  /\ pending' = Tail(pending)
  /\ IF SessionSkips(Head(pending), session_failed)
       THEN UNCHANGED << pc, task, loop, dispatched, started >>
       ELSE /\ task' = Head(pending)
            /\ cycle' = 1
            /\ attempt' = 1
            /\ last_result' = NoResult
            /\ last_error' = ""
            /\ pc' = "attempt"
            /\ dispatched' = Append(dispatched, Head(pending))
            /\ started' = started \cup {Head(pending)}
  /\ UNCHANGED << store, session_failed, tasks_completed, ghosts, env, last_poll, world >>

\* run_orchestrator: the pending list is exhausted; time.sleep, next poll.
Sleep ==
  /\ pc = "dispatch"
  /\ pending = << >>
  /\ pc' = "poll"
  /\ UNCHANGED << store, session_failed, tasks_completed, pending, task, loop, ghosts, env,
                  polls, world >>


\* execute_with_retry: one attempt begins.  The file is read again, then
\* process_task marks it in_progress and enforces the tier (STEP 1, STEP 2).
\* A tier halt makes process_task return "halted" and execute_with_retry return.
AttemptBegin ==
  /\ pc = "attempt"
  /\ task \in DOMAIN needs_action
  /\ LET content  == needs_action[task]
         metadata == parse_frontmatter(content)[1].value
         na1  == update_task_frontmatter(needs_action, task,
                   [k \in {"status", "started"} |->
                      IF k = "status" THEN "in_progress" ELSE "<now>"])
         tier == detect_tier(metadata, content)
         na2  == update_task_frontmatter(na1, task,
                   [k \in {"status", "blocked_reason"} |->
                      IF k = "status" THEN "blocked"
                      ELSE "Tier " \o ToString(tier) \o " - requires human approval"])
         na3  == append_transition_history(na2, task, "/Needs_Action", "/Needs_Action",
                                           "block", "orchestrator")
     IN  IF TierHalts(tier)
           THEN /\ needs_action' = na3
                /\ escalations' = write_escalation(escalations, task, HaltSeverity(tier))
                /\ logs' = write_audit_log(logs, task, "halted", "tier-enforcement")
                /\ last_result' = [status |-> "halted", text |-> "awaiting approval"]
                /\ disposition' = [disposition EXCEPT ![task] = "halted"]
                /\ pc' = "post"
           ELSE /\ needs_action' = na1
                /\ pc' = "invoke"
                /\ UNCHANGED << escalations, logs, last_result, disposition >>
  /\ cycles_begun' = IF attempt = 1 THEN [cycles_begun EXCEPT ![task] = @ + 1]
                     ELSE cycles_begun
  /\ UNCHANGED << done_dir, session_failed, tasks_completed, pending, task,
                  cycle, attempt, last_error, invocations, completions, env, polls, world >>

\* The Executor's answer may change at most MaxSwitches times during a run.
ExecutorMay(a) == answer = NoAnswer \/ a = answer \/ switches < MaxSwitches

\* An _invoke_single_cycle that leaves a "done" answer unwritten.
invoke_single_cycle_NoDoneWrite(na, t, result, c) ==
  IF result.status = "in_progress"
    THEN append_transition_history(
           update_task_frontmatter(na, t,
             [k \in {"status", "remaining_work", "last_cycle"} |->
                CASE k = "status"         -> "in_progress"
                  [] k = "remaining_work" -> result.text
                  [] OTHER                -> ToString(c)]),
           t, "/Needs_Action", "/Needs_Action",
           "reprocess (cycle " \o ToString(c) \o ")", "orchestrator")
  ELSE na

\* _invoke_single_cycle after process_task returned `result`.
invoke_single_cycle(na, t, result, c) ==
  IF result.status = "done"
    THEN update_task_frontmatter(na, t, [k \in {"status"} |-> "done"])
  ELSE IF result.status = "in_progress"
    THEN append_transition_history(
           update_task_frontmatter(na, t,
             [k \in {"status", "remaining_work", "last_cycle"} |->
                CASE k = "status"         -> "in_progress"
                  [] k = "remaining_work" -> result.text
                  [] OTHER                -> ToString(c)]),
           t, "/Needs_Action", "/Needs_Action",
           "reprocess (cycle " \o ToString(c) \o ")", "orchestrator")
  ELSE na

\* execute_with_retry: the rest of one attempt.  process_task prepares the
\* prompt and invokes the Executor (STEP 3, STEP 4); _invoke_single_cycle
\* persists the answer; the attempt then retries, ends the cycle, or
\* finalizes.  `except Exception` catches what the attempt raises.
Invoke ==
  /\ pc = "invoke"
  /\ \E a \in Answers :
       /\ ExecutorMay(a)
       /\ answer' = a
       /\ switches' = IF answer # NoAnswer /\ a # answer THEN switches + 1 ELSE switches
       /\ LET t         == task
              na1       == invoke_single_cycle(needs_action, t, a, cycle)
              confirmed == a.status \notin {"raise", "failed"} /\ is_task_done(na1, t)
              ct        == complete_task(na1, done_dir, t, a, cycle)
              excepted  == a.status = "raise" \/ (confirmed /\ ct.raised)
              naX       == IF a.status = "raise" THEN needs_action ELSE ct.na
          IN  /\ invocations' = IF a.status = "raise" THEN invocations
                                ELSE [invocations EXCEPT ![t] = @ + 1]
              /\ last_result' = IF a.status = "raise" THEN last_result ELSE a
              /\ completions' = IF confirmed
                                  THEN completions \cup
                                         { [task |-> t, site |-> "attempt",
                                            status |-> na1[t].meta["status"]] }
                                  ELSE completions
              /\ IF excepted
                   THEN /\ last_error' = IF a.status = "raise" THEN "OSError" ELSE "AttributeError"
                        /\ needs_action' =
                             IF RetryLeft(attempt)
                               THEN update_task_frontmatter(naX, t, [k \in {"status"} |-> "ready"])
                               ELSE naX
                        /\ logs' = write_audit_log(logs, t, "failed", "task-error")
                        /\ IF RetryLeft(attempt)
                             THEN attempt' = attempt + 1 /\ pc' = "attempt"
                             ELSE attempt' = attempt /\ pc' = "cycle_end"
                        /\ UNCHANGED << done_dir, disposition >>
                 ELSE IF a.status = "failed"
                   THEN /\ last_error' = a.text
                        /\ needs_action' =
                             IF RetryLeft(attempt)
                               THEN update_task_frontmatter(na1, t, [k \in {"status"} |-> "ready"])
                               ELSE na1
                        /\ IF RetryLeft(attempt)
                             THEN attempt' = attempt + 1 /\ pc' = "attempt"
                             ELSE attempt' = attempt /\ pc' = "cycle_end"
                        /\ UNCHANGED << done_dir, logs, disposition >>
                 ELSE IF confirmed
                   THEN /\ needs_action' = ct.na
                        /\ done_dir' = ct.dn
                        /\ logs' = write_audit_log(logs, t, "success", "task-completion")
                        /\ disposition' = [disposition EXCEPT ![t] = "completed"]
                        /\ pc' = "post"
                        /\ UNCHANGED << attempt, last_error >>
                 ELSE /\ needs_action' = na1
                      /\ pc' = "cycle_end"
                      /\ UNCHANGED << done_dir, logs, disposition, attempt, last_error >>
  /\ UNCHANGED << escalations, session_failed, tasks_completed, pending, task,
                  cycle, cycles_begun, polls, world >>

\* execute_with_retry: after the attempts of a cycle, the late done check,
\* then the cooldown and the next cycle.  An exception of complete_task here
\* leaves execute_with_retry and is caught by run_orchestrator.
CycleEnd ==
  /\ pc = "cycle_end"
  /\ LET t    == task
         late == t \in DOMAIN needs_action /\ is_task_done(needs_action, t)
         ct   == complete_task(needs_action, done_dir, t, last_result, cycle)
     IN  IF late
           THEN /\ completions' = completions \cup
                     { [task |-> t, site |-> "late", status |-> needs_action[t].meta["status"]] }
                /\ needs_action' = ct.na
                /\ done_dir' = ct.dn
                /\ IF ct.raised
                     THEN /\ session_failed' = session_failed \cup {t}
                          /\ logs' = write_audit_log(logs, t, "failed", "orchestrator-error")
                          /\ disposition' = [disposition EXCEPT ![t] = "raised"]
                          /\ pc' = "dispatch"
                     ELSE /\ logs' = write_audit_log(logs, t, "success", "task-completion")
                          /\ disposition' = [disposition EXCEPT ![t] = "completed"]
                          /\ pc' = "post"
                          /\ UNCHANGED session_failed
                /\ UNCHANGED << cycle, attempt >>
           ELSE /\ IF CyclesLeft(cycle)
                     THEN cycle' = cycle + 1 /\ attempt' = 1 /\ pc' = "attempt"
                     ELSE pc' = "exhausted" /\ UNCHANGED << cycle, attempt >>
                /\ UNCHANGED << needs_action, done_dir, logs, session_failed,
                                completions, disposition >>
  /\ UNCHANGED << escalations, tasks_completed, pending, task, last_result, last_error,
                  invocations, cycles_begun, env, polls, world >>

\* execute_with_retry: all cycles exhausted without `status: done`.
Exhausted ==
  /\ pc = "exhausted"
  /\ LET ft == fail_task(needs_action, escalations, task, last_error, "E3",
                         MAX_COMPLETION_CYCLES)
     IN  /\ needs_action' = ft.na
         /\ escalations' = ft.esc
  /\ logs' = write_audit_log(logs, task, "failed", "task-failure")
  /\ disposition' = [disposition EXCEPT ![task] = "exhausted"]
  /\ pc' = "post"
  /\ UNCHANGED << done_dir, session_failed, tasks_completed, pending, task, loop,
                  invocations, cycles_begun, completions, env, polls, world >>

\* run_orchestrator: after execute_with_retry returned, count the task as
\* completed if its file left /Needs_Action, else remember a failed or
\* blocked one in session_failed.
PostCheck ==
  /\ pc = "post"
  /\ IF task \notin DOMAIN needs_action
       THEN /\ tasks_completed' = tasks_completed + 1
            /\ UNCHANGED session_failed
       ELSE /\ session_failed' =
                 IF Get(parse_frontmatter(needs_action[task])[1].value, "status", Absent)
                      \in {"failed", "blocked"}
                   THEN session_failed \cup {task}
                   ELSE session_failed
            /\ UNCHANGED tasks_completed
  /\ pc' = "dispatch"
  /\ UNCHANGED << store, pending, task, loop, ghosts, env, polls, world >>

Next ==
  \/ Poll
  \/ Dispatch
  \/ Sleep
  \/ AttemptBegin
  \/ Invoke
  \/ CycleEnd
  \/ Exhausted
  \/ PostCheck

Spec == Init /\ [][Next]_vars


\* ------------------------------------------- the operator and the restart
\* The Human Operator approves a blocked task, or asks for a failed one to
\* be tried again, by setting its status back to ready in the file, while
\* the scheduler sleeps.
OperatorEdit ==
  /\ pc = "poll"
  /\ edits < MaxEdits
  /\ \E t \in DOMAIN needs_action :
       /\ Get(needs_action[t].meta, "status", Absent) \in {"blocked", "failed"}
       /\ needs_action' = [needs_action EXCEPT ![t].meta =
                              DictUpdate(@, [k \in {"status"} |-> "ready"])]
  /\ edits' = edits + 1
  /\ UNCHANGED << done_dir, escalations, logs, session_failed, tasks_completed, pending,
                  pc, task, loop, ghosts, env, polls, restarts, prior_failed, life, calls >>

\* A restart that finds the session's failures again.
Restart_KeepsSession ==
  /\ pc = "poll"
  /\ restarts < MaxRestarts
  /\ restarts' = restarts + 1
  /\ prior_failed' = session_failed
  /\ tasks_completed' = 0
  /\ pending' = << >>
  /\ last_poll' = NoPoll
  /\ dispatched' = << >>
  /\ started' = {}
  /\ logs' = write_audit_log(logs, "orchestrator", "success", "orchestrator-lifecycle")
  /\ UNCHANGED << needs_action, done_dir, escalations, session_failed, pc, task, loop,
                  ghosts, env, edits, life, calls >>

\* The scheduler process is stopped while it sleeps and started again:
\* run_orchestrator begins anew with its locals, the vault is as it was left.
Restart ==
  /\ pc = "poll"
  /\ restarts < MaxRestarts
  /\ restarts' = restarts + 1
  /\ prior_failed' = session_failed
  /\ session_failed' = {}
  /\ tasks_completed' = 0
  /\ pending' = << >>
  /\ last_poll' = NoPoll
  /\ dispatched' = << >>
  /\ started' = {}
  /\ logs' = write_audit_log(logs, "orchestrator", "success", "orchestrator-lifecycle")
  /\ UNCHANGED << needs_action, done_dir, escalations, pc, task, loop, ghosts, env, edits,
                  life, calls >>

\* The vault the operator and the restart are followed on: a task the
\* Executor works on, one that halts at Tier 2 and one that halts at Tier 3;
\* the Executor answers the same every time.
OpsKinds == { k \in TaskKinds : k.classification = "task" /\ k.priority # "P2" }
            \cup { k \in TaskKinds : k.classification = "task" /\ KeywordsIn(k.body) = {} }

OpsInit ==
  /\ \E n \in 1..NumTasks :
       needs_action \in
         { [t \in Listed(n) |->
              create_needs_action_task(k[t].priority, k[t].classification, k[t].body)] :
           k \in [Listed(n) -> OpsKinds] }
  /\ switches = MaxSwitches
  /\ StartUp(Tasks)

OpsNext ==
  \/ Next
  \/ OperatorEdit
  \/ Restart

OpsSpec == OpsInit /\ [][OpsNext]_vars


\* ------------------------------------------------- listings to be polled
\* Content that holds a Tier-3 keyword: process_task halts such a task at once.
HaltText == "send email to the customer"

\* A note somebody wrote into /Needs_Action by hand: no priority, no status.
HandWritten ==
  [ meta |-> [k \in {"title"} |-> "notes"], body |-> << TextBlock(HaltText) >> ]

\* The file write_escalation (or the watcher's rejection) leaves in /Needs_Action.
EscalationNote ==
  [ meta |-> [ k \in {"type", "severity", "priority", "status"} |->
               CASE k = "type"       -> "escalation"
                 [] k = "severity"   -> "E3"
                 [] k = "priority"   -> "P0"
                 [] OTHER            -> "awaiting_human" ],
    body |-> << TextBlock(HaltText) >> ]

\* Task files that differ in priority; "urgent" is a priority the watcher
\* copied from the inbox file's own frontmatter.
ListedFiles ==
  { create_needs_action_task(p, "task", HaltText) : p \in {"P0", "P1", "P2", "P3", "urgent"} }
  \cup { HandWritten }

\* Files that differ in type and status.
FilteredFiles ==
  { [create_needs_action_task("P0", "task", HaltText) EXCEPT !.meta.status = st] :
      st \in {"done", "Done", "in_progress", "completed", "blocked", "failed", "rejected"} }
  \cup { EscalationNote, HandWritten, create_needs_action_task("P1", "task", HaltText) }

ListInit ==
  /\ \/ needs_action \in [Listed(NumListed) -> ListedFiles]
     \/ needs_action \in [Listed(NumFiltered) -> FilteredFiles]
  /\ switches = MaxSwitches
  /\ StartUp(Listed(NumListed) \cup Listed(NumFiltered))

ListNext ==
  \/ Poll
  \/ Dispatch
  \/ Sleep
  \/ AttemptBegin
  \/ PostCheck

ListSpec == ListInit /\ [][ListNext]_vars


\* ------------------------------------------- start-up, faults and the stop
\* Where the process has ended: "exited" by sys.exit(1), "stopped" by the
\* break of `except KeyboardInterrupt`, "crashed" by a KeyboardInterrupt that
\* left run_orchestrator uncaught.
Ended == { "exited", "stopped", "crashed" }

\* A pre-flight check that starts the loop without the handbook.
PreFlight_StartsAnyway ==
  /\ pc = "start"
  /\ logs' = write_audit_log(logs, "orchestrator", "success", "orchestrator-lifecycle")
  /\ pc' = "poll"
  /\ UNCHANGED << needs_action, done_dir, escalations, session_failed, tasks_completed,
                  pending, task, loop, ghosts, env, polls, world >>

\* run_orchestrator before the loop: without Company_Handbook.md one audit
\* log and sys.exit(1); else the start-up audit log, then the loop.
PreFlight ==
  /\ pc = "start"
  /\ IF ~ handbook
       THEN /\ logs' = write_audit_log(logs, "orchestrator", "failed", "system-critical")
            /\ pc' = "exited"
       ELSE /\ logs' = write_audit_log(logs, "orchestrator", "success", "orchestrator-lifecycle")
            /\ pc' = "poll"
  /\ UNCHANGED << needs_action, done_dir, escalations, session_failed, tasks_completed,
                  pending, task, loop, ghosts, env, polls, world >>

\* Whether the process is in time.sleep(POLL_INTERVAL_SECONDS): the for loop
\* over the pending list is over and the try statement is left.
InPollSleep == pc = "dispatch" /\ pending = << >>

\* Ctrl+C while the loop runs.  Inside the try statement (listing, an
\* attempt, the Executor's call, the cooldown, the post-check) it reaches
\* `except KeyboardInterrupt`: one audit log, break.  In the poll sleep,
\* which follows the try statement, nothing catches it.
KeyboardInterrupt ==
  /\ pc \notin Ended \cup {"start"}
  /\ interrupted' = TRUE
  /\ IF InPollSleep
       THEN /\ pc' = "crashed"
            /\ UNCHANGED logs
       ELSE /\ logs' = write_audit_log(logs, "orchestrator", "success", "orchestrator-lifecycle")
            /\ pc' = "stopped"
  /\ UNCHANGED << needs_action, done_dir, escalations, session_failed, tasks_completed,
                  pending, task, loop, ghosts, env, polls, restarts, prior_failed, edits,
                  handbook, faults, watch, chosen, calls >>

\* A poll-level fault that ends the process.
PollFault_Fatal ==
  /\ pc = "poll"
  /\ faults < MaxFaults
  /\ faults' = faults + 1
  /\ pc' = "crashed"
  /\ UNCHANGED << store, session_failed, tasks_completed, pending, task, loop, ghosts, env,
                  polls, restarts, prior_failed, edits, handbook, interrupted, watch, chosen, calls >>

\* ensure_directories or the listing of /Needs_Action raises (an OSError):
\* `except Exception as loop_err` writes one audit log, then the poll sleep.
PollFault ==
  /\ pc = "poll"
  /\ faults < MaxFaults
  /\ faults' = faults + 1
  /\ logs' = write_audit_log(logs, "orchestrator", "partial", "orchestrator-error")
  /\ pc' = "dispatch"
  /\ UNCHANGED << needs_action, done_dir, escalations, session_failed, tasks_completed,
                  pending, task, loop, ghosts, env, polls, restarts, prior_failed, edits,
                  handbook, interrupted, watch, chosen, calls >>

\* The process is launched on a vault with or without the handbook; the
\* Executor answers the same every time.
LifeInit ==
  /\ \E n \in 1..NumTasks :
       needs_action \in
         { [t \in Listed(n) |->
              create_needs_action_task(k[t].priority, k[t].classification, k[t].body)] :
           k \in [Listed(n) -> OpsKinds] }
  /\ switches = MaxSwitches
  /\ handbook \in BOOLEAN
  /\ logs = << >>
  /\ pc = "start"
  /\ Launched(Tasks)
  /\ Aside
  /\ done_dir = << >>

LifeNext ==
  \/ PreFlight
  \/ Next
  \/ PollFault
  \/ KeyboardInterrupt

LifeSpec == LifeInit /\ [][LifeNext]_vars


\* ------------------------------------------- a stopped scheduler, relaunched
\* The process is killed (SIGKILL, power loss) wherever it stands: nothing
\* more is written.
Crash ==
  /\ pc \notin Ended \cup {"start"}
  /\ pc' = "crashed"
  /\ UNCHANGED << store, session_failed, tasks_completed, pending, task, loop, ghosts, env,
                  polls, world >>

\* `python orchestrator.py` again after the process ended on an interrupt
\* or a crash: run_orchestrator binds its locals anew, the vault is as it
\* was left.
Relaunch ==
  /\ pc \in {"stopped", "crashed"}
  /\ restarts < MaxRestarts
  /\ restarts' = restarts + 1
  /\ prior_failed' = session_failed
  /\ session_failed' = {}
  /\ tasks_completed' = 0
  /\ pending' = << >>
  /\ last_poll' = NoPoll
  /\ dispatched' = << >>
  /\ started' = {}
  /\ interrupted' = FALSE
  /\ pc' = "start"
  /\ UNCHANGED << store, task, loop, ghosts, env, edits, handbook, faults, watch, chosen, calls >>

\* Launched on a vault with the handbook and one task.
ResumeInit ==
  /\ LifeInit
  /\ handbook = TRUE
  /\ DOMAIN needs_action = Listed(1)

ResumeNext ==
  \/ PreFlight
  \/ Next
  \/ KeyboardInterrupt
  \/ Crash
  \/ Relaunch

ResumeSpec == ResumeInit /\ [][ResumeNext]_vars


\* ------------------------------------ a done status written from outside
\* While the engine waits for the Executor's answer, status done is written
\* into the task file from outside the engine (the Human Operator, a tool
\* that works on the vault); the engine reads the file again at each attempt
\* and at the end of the cycle.
StatusDoneWritten ==
  /\ pc = "invoke"
  /\ task \in DOMAIN needs_action
  /\ Get(needs_action[task].meta, "status", Absent) # "done"
  /\ needs_action' = update_task_frontmatter(needs_action, task, [k \in {"status"} |-> "done"])
  /\ UNCHANGED << done_dir, escalations, logs, session_failed, tasks_completed, pending, pc,
                  task, loop, ghosts, env, polls, world >>

\* The engine on one task, and such a writer.
LateInit ==
  /\ Init
  /\ DOMAIN needs_action = Listed(1)

LateNext ==
  \/ Next
  \/ StatusDoneWritten

LateSpec == LateInit /\ [][LateNext]_vars

\* Company_Handbook.md is a file of the vault: it can be removed, and put
\* back, while the scheduler runs.
HandbookRemoved ==
  /\ pc \notin Ended \cup {"start"}
  /\ handbook
  /\ handbook' = FALSE
  /\ UNCHANGED << store, session_failed, tasks_completed, pending, pc, task, loop, ghosts,
                  env, polls, restarts, prior_failed, edits, interrupted, faults, watch,
                  chosen, calls >>

HandbookRestored ==
  /\ pc \notin Ended \cup {"start"}
  /\ ~ handbook
  /\ handbook' = TRUE
  /\ UNCHANGED << store, session_failed, tasks_completed, pending, pc, task, loop, ghosts,
                  env, polls, restarts, prior_failed, edits, interrupted, faults, watch,
                  chosen, calls >>

HandbookNext ==
  \/ PreFlight
  \/ Next
  \/ HandbookRemoved
  \/ HandbookRestored

\* The scheduler started with or without the handbook, on one task.
HandbookSpec == ResumeInit /\ [][HandbookNext]_vars


\* The engine on one task that passes the tier gate as the watcher wrote it,
\* the process never suspended for ever: a step that can be taken is taken.
FairInit ==
  /\ needs_action =
       [t \in Listed(1) |-> create_needs_action_task("P2", "task", "summarise the meeting")]
  /\ switches = 0
  /\ StartUp(Tasks)

\* run_orchestrator's loop has no exit of its own (some step of Next is possible
\* in every state of this specification), so weak fairness of Next,
\* WF_vars(Next), is the same condition as "steps of Next keep being taken".
FairSpec == FairInit /\ [][Next]_vars /\ []<><<Next>>_vars


\* ------------------------------------------------ files at a safe path
\* A file that is in a directory from earlier on.
Earlier ==
  [ meta |-> [k \in {"status"} |-> "done"], body |-> << TextBlock("kept from an earlier run") >> ]

\* The escalation note a caller is about to write.
NewNote ==
  [ meta |-> [k \in {"type", "status"} |->
                IF k = "type" THEN "escalation" ELSE "awaiting_human"],
    body |-> << >> ]

\* ESCALATION_<date>_<stem>.md: the base name write_escalation and the
\* watcher's rejection note share for a file of that stem on one day.
NoteName == "ESCALATION_a.md"

\* Directories in which the plain name and the suffixes up to some number
\* are taken, but for a few of the low ones: few files, or nearly all of
\* the hundred names.
Collisions(filename) ==
  { [path \in { << filename, c >> : c \in (1..k) \ gaps } |-> Earlier] :
      k \in (0..(MaxGap + 2)) \cup (97..100), gaps \in SUBSET (1..MaxGap) }

\* A task file whose frontmatter says done, waiting to be relocated.
Finished ==
  [create_needs_action_task("P2", "task", "summarise the meeting") EXCEPT !.meta.status = "done"]

\* The paths get_safe_path or get_safe_filename is examined on: /Done holds
\* same-named files and tasks are relocated into it, or /Needs_Action
\* (bench) holds same-named notes and further notes are created.
PathInit ==
  /\ needs_action = [t \in Tasks |-> Finished]
  /\ \/ done_dir \in Collisions(TaskNames[1]) /\ bench = << >>
     \/ bench \in Collisions(NoteName) /\ done_dir = << >>
  /\ ret = NoCall
  /\ chosen = NoChoice
  /\ switches = MaxSwitches
  /\ handbook = TRUE
  /\ logs = << >>
  /\ inbox = << >>
  /\ processed = {}
  /\ handled = << >>
  /\ pc = "bench"
  /\ Launched(Tasks)

\* The creation of a file at the path `path` in the directory bench.
CreateAt(fn, path) ==
  /\ ret.calls < MaxCalls
  /\ ret' = [fn |-> fn, filename |-> NoteName, path |-> path, calls |-> ret.calls + 1]
  /\ bench' = IF path = Overflow THEN bench
              ELSE [x \in (DOMAIN bench) \cup {path} |-> IF x = path THEN NewNote ELSE bench[x]]
  /\ UNCHANGED << store, session_failed, tasks_completed, pending, pc, task, loop, ghosts,
                  env, polls, restarts, prior_failed, edits, life >>

\* write_escalation: esc_path = get_safe_path(NEEDS_ACTION_DIR, filename),
\* then esc_path.write_text; the RuntimeError leaves before the write.
WriteEscalationFile ==
  /\ pc = "bench"
  /\ CreateAt("get_safe_path", get_safe_path(bench, NoteName))

\* filesystem_watcher._create_rejection_note: note_path =
\* get_safe_filename(NEEDS_ACTION_DIR, note_filename), then write_text.
CreateRejectionNote ==
  /\ pc = "bench"
  /\ CreateAt("get_safe_filename", get_safe_filename(bench, NoteName))

\* complete_task from its relocation step on, for a task whose file is
\* finished: done_path = get_safe_path(DONE_DIR, name); shutil.move.
Relocate ==
  /\ pc = "bench"
  /\ \E t \in DOMAIN needs_action :
       LET moved == move_to_done(needs_action, done_dir, t)
       IN  /\ needs_action' = moved.na
           /\ done_dir' = moved.dn
           /\ ret' = [fn |-> "complete_task", filename |-> t,
                      path |-> get_safe_path(done_dir, t), calls |-> ret.calls]
  /\ UNCHANGED << escalations, logs, session_failed, tasks_completed, pending, pc, task,
                  loop, ghosts, env, polls, restarts, prior_failed, edits, life, bench >>

PathNext ==
  \/ WriteEscalationFile
  \/ CreateRejectionNote
  \/ Relocate

PathSpec == PathInit /\ [][PathNext]_vars


\* ------------------------------------- two processes on one directory
\* run_orchestrator and run_watcher are separate processes.  Each creates
\* its note in two steps, the choice of a free path and the write to it, and
\* the other process may run between the two.

\* The note write_escalation writes: frontmatter with task_ref.
EscalationFile ==
  [ meta |-> [k \in {"type", "status", "task_ref"} |->
                CASE k = "type"   -> "escalation"
                  [] k = "status" -> "awaiting_human"
                  [] OTHER        -> "a.md"],
    body |-> << >> ]

\* The note _create_rejection_note writes: frontmatter with source_file and
\* processed_by.
RejectionFile ==
  [ meta |-> [k \in {"type", "status", "source_file", "processed_by"} |->
                CASE k = "type"        -> "escalation"
                  [] k = "status"      -> "awaiting_human"
                  [] k = "source_file" -> "Inbox/a.pdf"
                  [] OTHER             -> "SK-010"],
    body |-> << >> ]

NoteOf(process) == IF process = "orchestrator" THEN EscalationFile ELSE RejectionFile

RaceInit ==
  /\ bench \in Collisions(NoteName)
  /\ done_dir = << >>
  /\ needs_action = [t \in Tasks |-> Finished]
  /\ ret = NoCall
  /\ chosen = NoChoice
  /\ switches = MaxSwitches
  /\ handbook = TRUE
  /\ logs = << >>
  /\ inbox = << >>
  /\ processed = {}
  /\ handled = << >>
  /\ pc = "bench"
  /\ Launched(Tasks)

\* The first step of a creation: the path is chosen; a RuntimeError ends the
\* creation at once.
ChoosePath(process, fn, path) ==
  /\ pc = "bench"
  /\ chosen[process] = NoPath
  /\ ret.calls < MaxCalls
  /\ ret' = [fn |-> fn, filename |-> NoteName, path |-> path, calls |-> ret.calls + 1]
  /\ chosen' = [chosen EXCEPT ![process] = IF path = Overflow THEN NoPath ELSE path]
  /\ UNCHANGED << store, session_failed, tasks_completed, pending, pc, task, loop, ghosts,
                  env, polls, restarts, prior_failed, edits, handbook, interrupted,
                  faults, watch, bench >>

\* The second step: write_text creates the file at the chosen path, or
\* replaces what is there by now.
WriteChosen(process) ==
  /\ pc = "bench"
  /\ chosen[process] # NoPath
  /\ bench' = [x \in (DOMAIN bench) \cup {chosen[process]} |->
                IF x = chosen[process] THEN NoteOf(process) ELSE bench[x]]
  /\ chosen' = [chosen EXCEPT ![process] = NoPath]
  /\ UNCHANGED << store, session_failed, tasks_completed, pending, pc, task, loop, ghosts,
                  env, polls, restarts, prior_failed, edits, handbook, interrupted,
                  faults, watch, ret >>

\* write_escalation: esc_path = get_safe_path(NEEDS_ACTION_DIR, filename)
EscalationPath ==
  /\ \E path \in {get_safe_path(bench, NoteName)} :
       ChoosePath("orchestrator", "get_safe_path", path)

\* write_escalation: esc_path.write_text(content)
EscalationWrite ==
  /\ chosen["orchestrator"] # NoPath
  /\ WriteChosen("orchestrator")

\* _create_rejection_note: note_path = get_safe_filename(NEEDS_ACTION_DIR,
\* note_filename)
RejectionPath ==
  /\ \E path \in {get_safe_filename(bench, NoteName)} :
       ChoosePath("watcher", "get_safe_filename", path)

\* _create_rejection_note: note_path.write_text(content)
RejectionWrite ==
  /\ chosen["watcher"] # NoPath
  /\ WriteChosen("watcher")

RaceNext ==
  \/ EscalationPath
  \/ EscalationWrite
  \/ RejectionPath
  \/ RejectionWrite

RaceSpec == RaceInit /\ [][RaceNext]_vars


\* ------------------------------------------------- the tier of a file
\* The classifications the watcher's classify_file gives, and one written
\* by hand with a capital.
Classifications == { "task", "plan", "skill", "log", "Plan" }

\* Task files as the engine reads them: triaged by the watcher, some with a
\* remaining_work the Executor's answer left in the frontmatter.
TierFiles ==
  LET triaged == { create_needs_action_task("P2", c, b) :
                     c \in Classifications, b \in BodyTexts \cup {"Please DEPLOY it today"} }
  IN  triaged \cup
      { [f EXCEPT !.meta = DictUpdate(@, [k \in {"remaining_work"} |-> x])] :
          f \in triaged, x \in ExecTexts }

TierInit ==
  /\ needs_action \in [{TaskNames[1]} -> TierFiles]
  /\ done_dir = << >>
  /\ bench = << >>
  /\ ret = NoCall
  /\ chosen = NoChoice
  /\ switches = MaxSwitches
  /\ handbook = TRUE
  /\ logs = << >>
  /\ inbox = << >>
  /\ processed = {}
  /\ handled = << >>
  /\ pc = "bench"
  /\ Launched(Tasks)

\* process_task: tier = detect_tier(metadata, content), on the file as read.
DetectTier ==
  /\ pc = "bench"
  /\ ret.calls < MaxCalls
  /\ LET content  == needs_action[TaskNames[1]]
         metadata == parse_frontmatter(content)[1].value
     IN  ret' = [fn |-> "detect_tier", tier |-> detect_tier(metadata, content),
                 calls |-> ret.calls + 1]
  /\ UNCHANGED << store, session_failed, tasks_completed, pending, pc, task, loop, ghosts,
                  env, polls, restarts, prior_failed, edits, life, bench >>

TierSpec == TierInit /\ [][DetectTier]_vars


\* ------------------------------------------------- frontmatter as text
\* The text of a file, character by character: a sequence of one-character
\* strings, in which a word without blank, comma, colon, quote or dash
\* counts as one character.  A frontmatter dict is the sequence of its
\* << key, value >> pairs in insertion order.
NL == "\n"
DQ == "\""
SQ == "'"
Whitespace == { " ", NL }
Dashes == << "-", "-", "-" >>

\* str.lstrip(chars), str.rstrip(chars), str.strip(chars)
RECURSIVE LStrip(_, _)
LStrip(s, chars) ==
  IF s # << >> /\ Head(s) \in chars THEN LStrip(Tail(s), chars) ELSE s

RECURSIVE RStrip(_, _)
RStrip(s, chars) ==
  IF s # << >> /\ s[Len(s)] \in chars THEN RStrip(SubSeq(s, 1, Len(s) - 1), chars) ELSE s

Strip(s, chars) == RStrip(LStrip(s, chars), chars)

\* str.find(sub): the first index at which sub occurs in s, 0 if nowhere.
Find(s, sub) ==
  LET at(i) == SubSeq(s, i, i + Len(sub) - 1) = sub
      hits  == { i \in 1..(Len(s) - Len(sub) + 1) : at(i) }
  IN  IF hits = {} THEN 0 ELSE CHOOSE i \in hits : \A j \in hits : i <= j

\* str.split(sep, maxsplit)
RECURSIVE Split(_, _, _)
Split(s, sep, maxsplit) ==
  LET i == Find(s, sep)
  IN  IF maxsplit = 0 \/ i = 0 THEN << s >>
      ELSE << SubSeq(s, 1, i - 1) >> \o
           Split(SubSeq(s, i + Len(sep), Len(s)), sep, maxsplit - 1)

\* metadata[key] = value
DictSet(metadata, key, value) ==
  IF \E i \in 1..Len(metadata) : metadata[i][1] = key
    THEN [i \in 1..Len(metadata) |->
            IF metadata[i][1] = key THEN << key, value >> ELSE metadata[i]]
    ELSE Append(metadata, << key, value >>)

\* metadata.update(updates)
RECURSIVE DictUpdateSeq(_, _)
DictUpdateSeq(metadata, updates) ==
  IF updates = << >> THEN metadata
  ELSE DictUpdateSeq(DictSet(metadata, updates[1][1], updates[1][2]), Tail(updates))

\* metadata.get(key, default)
GetSeq(metadata, key, default) ==
  IF \E i \in 1..Len(metadata) : metadata[i][1] = key
    THEN metadata[CHOOSE i \in 1..Len(metadata) : metadata[i][1] = key][2]
    ELSE default

\* parse_frontmatter: the loop over the lines of the frontmatter block.
RECURSIVE ParseLines(_, _)
ParseLines(lines, metadata) ==
  IF lines = << >> THEN metadata
  ELSE LET line  == Head(lines)
           colon == Find(line, << ":" >>)
           key   == Strip(SubSeq(line, 1, colon - 1), Whitespace)
           value == Strip(Strip(Strip(SubSeq(line, colon + 1, Len(line)), Whitespace),
                                {DQ}), {SQ})
       IN  ParseLines(Tail(lines),
                      IF colon = 0 THEN metadata ELSE DictSet(metadata, key, value))

\* parse_frontmatter on the text of a file.
parse_frontmatter_str(content) ==
  LET parts == Split(content, Dashes, 2)
  IN  IF SubSeq(content, 1, 3) = Dashes /\ Len(parts) >= 3
        THEN [metadata |-> ParseLines(Split(Strip(parts[2], Whitespace), << NL >>, -1), << >>),
              body     |-> parts[3]]
        ELSE [metadata |-> << >>, body |-> content]

\* render_frontmatter: one line of the block.
RenderLine(key, value) ==
  IF \E i \in 1..Len(value) : value[i] \in { " ", "," }
    THEN key \o << ":", " ", DQ >> \o value \o << DQ >>
    ELSE key \o << ":", " " >> \o value

RECURSIVE RenderLines(_)
RenderLines(metadata) ==
  IF metadata = << >> THEN << >>
  ELSE RenderLine(metadata[1][1], metadata[1][2]) \o << NL >> \o RenderLines(Tail(metadata))

\* render_frontmatter on a dict: "\n".join(["---"] + lines + ["---"]).
render_frontmatter_str(metadata) ==
  Dashes \o << NL >> \o RenderLines(metadata) \o Dashes

\* update_task_frontmatter on the text of a file.
update_task_frontmatter_str(content, updates) ==
  LET parsed == parse_frontmatter_str(content)
  IN  render_frontmatter_str(DictUpdateSeq(parsed.metadata, updates)) \o parsed.body


\* The characters of a value: a word, and the ones render and parse treat
\* specially.
ValueChars == { "a", " ", ",", ":", DQ, SQ, "-" }

\* The values of at most MaxLen characters.
Values == UNION { [1..n -> ValueChars] : n \in 0..MaxLen }

\* What _parse_claude_response can leave in result["remaining"]: the rest of
\* one line (no line break), stripped of whitespace.
ExecutorValues == { v \in Values : Strip(v, Whitespace) = v }

Key(word) == << word >>
Timestamp == << "2026-11-05", " ", "19", ":", "30" >>

\* The text of a task file the watcher triaged.
TriagedText ==
  render_frontmatter_str(<< << Key("title"), << "a", " ", "a" >> >>,
                            << Key("status"), Key("ready") >>,
                            << Key("priority"), Key("P2") >> >>)
  \o << NL, NL, "a", NL >>

FrontInit ==
  /\ bench = TriagedText
  /\ ret = [fn |-> "none", calls |-> 0, stored |-> FALSE]
  /\ chosen = NoChoice
  /\ needs_action = << >>
  /\ done_dir = << >>
  /\ switches = MaxSwitches
  /\ handbook = TRUE
  /\ logs = << >>
  /\ inbox = << >>
  /\ processed = {}
  /\ handled = << >>
  /\ pc = "bench"
  /\ Launched({})

\* One call update_task_frontmatter(file_path, updates) on the file bench.
Update(updates, stores) ==
  /\ ret.calls < MaxUpdates
  /\ bench' = update_task_frontmatter_str(bench, updates)
  /\ ret' = [fn |-> "update_task_frontmatter", before |-> bench, updates |-> updates,
             calls |-> ret.calls + 1, stored |-> ret.stored \/ stores]
  /\ UNCHANGED << store, session_failed, tasks_completed, pending, pc, task, loop, ghosts,
                  env, polls, restarts, prior_failed, edits, life >>

\* process_task STEP 1: status in_progress, started.
MarkInProgress ==
  /\ pc = "bench"
  /\ Update(<< << Key("status"), Key("in_progress") >>, << Key("started"), Timestamp >> >>,
            FALSE)

\* _invoke_single_cycle on an in_progress answer: the Executor's remaining
\* work goes into the frontmatter.
StoreRemaining ==
  /\ pc = "bench"
  /\ ~ ret.stored
  /\ \E remaining \in ExecutorValues :
       Update(<< << Key("status"), Key("in_progress") >>,
                 << Key("remaining_work"), remaining >>,
                 << Key("last_cycle"), Key("1") >> >>, TRUE)

\* execute_with_retry: status back to ready before the next attempt.
ResetReady ==
  /\ pc = "bench"
  /\ Update(<< << Key("status"), Key("ready") >> >>, FALSE)

FrontNext ==
  \/ MarkInProgress
  \/ StoreRemaining
  \/ ResetReady

FrontSpec == FrontInit /\ [][FrontNext]_vars

\* Flat records with string keys and string values: one key, or a status
\* and one key.
Records ==
  { << << Key("k"), v >> >> : v \in Values }
  \cup { << << Key("status"), Key("ready") >>, << Key("k"), v >> >> : v \in Values }

RoundInit ==
  /\ bench \in Records
  /\ ret = NoCall
  /\ chosen = NoChoice
  /\ needs_action = << >>
  /\ done_dir = << >>
  /\ switches = MaxSwitches
  /\ handbook = TRUE
  /\ logs = << >>
  /\ inbox = << >>
  /\ processed = {}
  /\ handled = << >>
  /\ pc = "bench"
  /\ Launched({})

\* x = render_frontmatter(record)
Render ==
  /\ pc = "bench"
  /\ ret.fn = "none"
  /\ ret' = [fn |-> "render_frontmatter", x |-> render_frontmatter_str(bench), calls |-> 1]
  /\ UNCHANGED << store, session_failed, tasks_completed, pending, pc, task, loop, ghosts,
                  env, polls, restarts, prior_failed, edits, life, bench >>

\* metadata, body = parse_frontmatter(x), and render_frontmatter(metadata)
Parse ==
  /\ pc = "bench"
  /\ ret.fn = "render_frontmatter"
  /\ LET parsed == parse_frontmatter_str(ret.x)
     IN  ret' = [fn |-> "parse_frontmatter", x |-> ret.x, metadata |-> parsed.metadata,
                 body |-> parsed.body, again |-> render_frontmatter_str(parsed.metadata),
                 calls |-> 2]
  /\ UNCHANGED << store, session_failed, tasks_completed, pending, pc, task, loop, ghosts,
                  env, polls, restarts, prior_failed, edits, life, bench >>

RoundNext ==
  \/ Render
  \/ Parse

RoundSpec == RoundInit /\ [][RoundNext]_vars


\* ------------------------------------------------------ the inbox watcher
\* filesystem_watcher.py beside the scheduler.  An inbox file is its stem
\* (as text), its suffix, its size in bytes, its modification time and what
\* it holds: "plain" text, "binary" (not UTF-8), "blank" whitespace or text
\* with a "secret".  The rejection note is written as text and read back
\* through parse_frontmatter, as get_pending_tasks reads it.
ALLOWED_EXTENSIONS == { ".md", ".txt", ".json", ".csv", ".yaml", ".yml" }
MAX_FILE_SIZE_BYTES == 1048576
EmDash == "<em dash>"
Today == "2026-11-05"

\* "".join(s)
RECURSIVE Join(_)
Join(s) == IF s = << >> THEN "" ELSE Head(s) \o Join(Tail(s))

Stems == { << "report" >>, << "report", "-", "-", "-", "final" >> }

\* process_file steps 1-5: why a file is rejected, if it is.
Rejection(file) ==
  IF file.suffix \notin ALLOWED_EXTENSIONS
    THEN [rejected |-> TRUE, severity |-> "E2", category |-> "file-rejection",
          reason |-> << "Unsupported", " ", "extension", ":", " ", file.suffix >>]
  ELSE IF file.size > MAX_FILE_SIZE_BYTES
    THEN [rejected |-> TRUE, severity |-> "E2", category |-> "file-rejection",
          reason |-> << "File", " ", "too", " ", "large" >>]
  ELSE IF file.content = "binary"
    THEN [rejected |-> TRUE, severity |-> "E2", category |-> "file-rejection",
          reason |-> << "File", " ", "is", " ", "not", " ", "valid", " ", "UTF", "-", "8",
                        " ", "text" >>]
  ELSE IF file.content = "blank"
    THEN [rejected |-> TRUE, severity |-> "E1", category |-> "file-rejection",
          reason |-> << "File", " ", "is", " ", "empty" >>]
  ELSE IF file.content = "secret"
    THEN [rejected |-> TRUE, severity |-> "E3", category |-> "security-escalation",
          reason |-> << "SECRETS", " ", "DETECTED", " ", EmDash, " ", "1", " ",
                        "pattern(s)", " ", "matched." >>]
  ELSE [rejected |-> FALSE, severity |-> "", category |-> "file-processing",
        reason |-> << >>]

\* The files a user may save into /Inbox: a file has at most one defect,
\* and a file that passes validation carries the plain stem (its task file
\* is kept by its fields).
InboxFiles ==
  { file \in [ stem : Stems, suffix : { ".md", ".pdf" },
               size : { 12, MAX_FILE_SIZE_BYTES + 1 },
               content : { "plain", "binary", "blank", "secret" }, mtime : { 1 } ] :
      /\ Cardinality({ file.suffix, ".md" }) + Cardinality({ file.size, 12 })
           + Cardinality({ file.content, "plain" }) <= 4
      /\ ~Rejection(file).rejected => file.stem = << "report" >> }

\* file_path.name, as text and as a directory key.
NameChars(file) == file.stem \o << file.suffix >>
NameOf(file) == Join(NameChars(file))

\* note_filename of _create_rejection_note, task_filename of
\* create_needs_action_task, without and with the extension.
NoteStem(file) == "ESCALATION_" \o Today \o "_" \o Join(file.stem)
TaskStem(file) == Today \o "_" \o Join(file.stem)
NoteFilename(file) == NoteStem(file) \o ".md"
TaskFilename(file) == TaskStem(file) \o ".md"
WatchStems == { NoteStem(file) : file \in InboxFiles } \cup { TaskStem(file) : file \in InboxFiles }
WatchNames == { NoteFilename(file) : file \in InboxFiles }
              \cup { TaskFilename(file) : file \in InboxFiles }

\* get_safe_filename: f"{stem}_{counter}{ext}", the plain name for counter 1.
Suffixed(stem, counter) ==
  IF counter = 1 THEN stem \o ".md" ELSE stem \o "_" \o ToString(counter) \o ".md"

\* The text _create_rejection_note writes.
RejectionNoteText(file_name, reason, severity) ==
  Dashes \o << NL, "title", ":", " ", DQ, "FILE", " ", "REJECTED", " ", EmDash, " " >>
  \o file_name
  \o << DQ, NL, "type", ":", " ", "escalation", NL,
        "severity", ":", " ", severity, NL,
        "source_file", ":", " ", "Inbox/" >> \o file_name
  \o << NL, "reason", ":", " ", DQ >> \o reason
  \o << DQ, NL, "created", ":", " " >> \o Timestamp
  \o << NL, "status", ":", " ", "awaiting_human", NL,
        "processed_by", ":", " ", "SK-010", NL >>
  \o Dashes
  \o << NL, NL, "#", " ", "ESCALATION", " ", EmDash, " " >> \o file_name \o << NL >>

\* A file of text as the orchestrator's parse_frontmatter reads it: the
\* dict of the frontmatter block it finds, and the rest as the body.
AsTaskFile(text) ==
  LET parsed == parse_frontmatter_str(text)
      pairs  == parsed.metadata
      keys   == { Join(pairs[i][1]) : i \in 1..Len(pairs) }
  IN  [ meta |-> [ k \in keys |->
                   Join(pairs[CHOOSE i \in 1..Len(pairs) : Join(pairs[i][1]) = k][2]) ],
        body |-> << TextBlock(Join(parsed.body)) >> ]

\* The path << base name, counter >> of each name get_safe_filename can give
\* to a file of the watcher.
WatchPathOf ==
  [ n \in { Suffixed(q[1], q[2]) : q \in WatchStems \X (1..100) } |->
      LET q == CHOOSE q \in WatchStems \X (1..100) : Suffixed(q[1], q[2]) = n
      IN  << q[1] \o ".md", q[2] >> ]

\* The name of the file at a path get_safe_filename returned.
PathName(path) ==
  IF path[2] = 1 THEN path[1]
  ELSE CHOOSE n \in DOMAIN WatchPathOf : WatchPathOf[n] = path

\* The directory /Needs_Action as get_safe_filename sees it: the files the
\* watcher wrote under << name, counter >>, every other file under its name.
NeedsActionPaths(na) ==
  [ p \in { IF t \in DOMAIN WatchPathOf THEN WatchPathOf[t] ELSE << t, 1 >> : t \in DOMAIN na }
      |-> na[PathName(p)] ]

\* run_watcher's snapshot at start-up: every file that is in /Inbox already
\* counts as processed.
Snapshot_Nothing(files) == {}

Snapshot(files) == { << name, files[name].mtime >> : name \in DOMAIN files }

\* The Human Operator saves a file into /Inbox.  No two files share a stem.
DropFile ==
  /\ Cardinality(DOMAIN inbox) < NumInbox
  /\ \E file \in InboxFiles :
       /\ \A name \in DOMAIN inbox : inbox[name].stem # file.stem
       /\ inbox' = [ name \in (DOMAIN inbox) \cup { NameOf(file) } |->
                     IF name = NameOf(file) THEN file ELSE inbox[name] ]
  /\ UNCHANGED << store, session_failed, tasks_completed, pending, pc, task, loop, ghosts,
                  env, polls, restarts, prior_failed, edits, handbook, interrupted,
                  faults, processed, handled, chosen, calls >>

\* process_file on one inbox file, as run_watcher calls it inside its try
\* statement.  A rejected file gets its log, then its note; an accepted one
\* its task file, then its log.  When the write raises (get_safe_filename
\* out of suffixes, or write_text failing: `fault`), run_watcher's handler
\* writes a watcher-error log instead.
process_file(na, lg, name, file, fault) ==
  LET verdict == Rejection(file)
      base == IF verdict.rejected THEN NoteFilename(file) ELSE TaskFilename(file)
      path == get_safe_filename(NeedsActionPaths(na), base)
      note == AsTaskFile(RejectionNoteText(NameChars(file), verdict.reason, verdict.severity))
      written == IF verdict.rejected THEN note
                 ELSE create_needs_action_task("P2", "task", "summarise the meeting")
      rejected_log == IF verdict.rejected
                        THEN write_audit_log(lg, name, "failed", verdict.category)
                        ELSE lg
  IN  IF fault \/ path = Overflow
        THEN [ na |-> na,
               lg |-> write_audit_log(rejected_log, name, "failed", "watcher-error"),
               raised |-> TRUE ]
        ELSE [ na |-> [ t \in (DOMAIN na) \cup { PathName(path) } |->
                        IF t = PathName(path) THEN written ELSE na[t] ],
               lg |-> IF verdict.rejected THEN rejected_log
                      ELSE write_audit_log(lg, PathName(path), "success", verdict.category),
               raised |-> FALSE ]

\* run_watcher, one file of the scan: a file whose (name, mtime) is not in
\* processed goes through process_file and is then marked processed.  The
\* inbox file itself is left as it is.
ProcessFile ==
  /\ \E name \in DOMAIN inbox :
       LET file == inbox[name]
           file_key == << name, file.mtime >>
           out == process_file(needs_action, logs, name, file, FALSE)
       IN  /\ file_key \notin processed
           /\ needs_action' = out.na
           /\ logs' = out.lg
           /\ processed' = processed \cup { file_key }
           /\ handled' = Append(handled, file_key)
  /\ UNCHANGED << done_dir, escalations, session_failed, tasks_completed, pending, pc,
                  task, loop, ghosts, env, polls, restarts, prior_failed, edits, handbook,
                  interrupted, faults, inbox, chosen, calls >>

\* Both processes on one vault: the watcher starts on an empty inbox, the
\* scheduler on an empty /Needs_Action.
WatchInit ==
  /\ needs_action = << >>
  /\ switches = MaxSwitches
  /\ StartUp(WatchNames)

WatchNext ==
  \/ Next
  \/ DropFile
  \/ ProcessFile

WatchSpec == WatchInit /\ [][WatchNext]_vars

\* The same two processes, neither suspended for ever.  The scheduler's loop
\* has no exit of its own, so some step of Next is possible in every state:
\* weak fairness of Next, WF_vars(Next), is the same condition as "steps of
\* Next keep being taken".
FairWatchSpec == WatchInit /\ [][WatchNext]_vars /\ []<><<Next>>_vars


\* ------------------------------------------------- the watcher by itself
\* The files that are in /Inbox when the watcher starts were saved before:
\* their modification time is 0, that of every later version is above 0.
StartFiles == { [ file EXCEPT !.mtime = 0 ] : file \in InboxFiles }

\* run_watcher up to its loop: the snapshot of /Inbox.
DedupInit ==
  /\ \E names \in SUBSET { NameOf(file) : file \in StartFiles } :
       /\ Cardinality(names) <= NumInbox
       /\ inbox \in { files \in [ names -> StartFiles ] :
                        /\ \A name \in names : NameOf(files[name]) = name
                        /\ \A a, b \in names : files[a].stem = files[b].stem => a = b }
  /\ processed = Snapshot(inbox)
  /\ handled = << >>
  /\ bench = << >>
  /\ ret = NoCall
  /\ chosen = NoChoice
  /\ needs_action = << >>
  /\ done_dir = << >>
  /\ switches = MaxSwitches
  /\ handbook = TRUE
  /\ logs = << >>
  /\ pc = "bench"
  /\ Launched({})

\* An inbox file is saved again: same name, a later modification time.
TouchFile ==
  /\ \E name \in DOMAIN inbox :
       /\ inbox[name].mtime < MaxMtime
       /\ inbox' = [ inbox EXCEPT ![name].mtime = @ + 1 ]
  /\ UNCHANGED << store, session_failed, tasks_completed, pending, pc, task, loop, ghosts,
                  env, polls, restarts, prior_failed, edits, handbook, interrupted,
                  faults, processed, handled, chosen, calls >>

\* run_watcher, one file of the scan, process_file raising in its write:
\* `except Exception as proc_err` logs, and the file is marked processed.
ProcessFileRaises ==
  /\ \E name \in DOMAIN inbox :
       LET file == inbox[name]
           file_key == << name, file.mtime >>
           out == process_file(needs_action, logs, name, file, TRUE)
       IN  /\ file_key \notin processed
           /\ needs_action' = out.na
           /\ logs' = out.lg
           /\ processed' = processed \cup { file_key }
           /\ handled' = Append(handled, file_key)
  /\ UNCHANGED << done_dir, escalations, session_failed, tasks_completed, pending, pc,
                  task, loop, ghosts, env, polls, restarts, prior_failed, edits, handbook,
                  interrupted, faults, inbox, chosen, calls >>

DedupNext ==
  \/ DropFile
  \/ TouchFile
  \/ ProcessFile
  \/ ProcessFileRaises

DedupSpec == DedupInit /\ [][DedupNext]_vars


\* ------------------------------------------------------------- observation
\* The file of task t, in /Needs_Action or moved to /Done.
Where(t) ==
  IF t \in DOMAIN needs_action THEN "Needs_Action"
  ELSE IF \E d \in DOMAIN done_dir : d[1] = t THEN "Done"
  ELSE "nowhere"

FileOf(t) ==
  IF t \in DOMAIN needs_action THEN needs_action[t]
  ELSE done_dir[CHOOSE d \in DOMAIN done_dir : d[1] = t]

StatusOf(t) == Get(FileOf(t).meta, "status", Absent)

Present == { t \in Tasks : Where(t) # "nowhere" }

EscalationsFor(t) == SelectSeq(escalations, LAMBDA e : e.task_ref = t)

LogsFor(t, status, category) ==
  SelectSeq(logs, LAMBDA l : l.task_ref = t /\ l.status = status /\ l.category = category)

RowsOf(t, action) == SelectSeq(HistoryOf(FileOf(t)), LAMBDA b : b.action = action)

Entered(t, site) == \E c \in completions : c.task = t /\ c.site = site


\* ------------------------------------------------------------------ claims

\* C1 (as stated): an Executor answer of done, with nothing but the engine
\* writing the task file, never makes the engine enter complete_task for
\* the task.
C1_DoneAnswerNeverFinalizes ==
  answer.status = "done" => ~ Entered(task, "attempt")

\* C1 (amended): in every attempt, complete_task is entered exactly when the
\* Executor answered done: _invoke_single_cycle itself writes status done
\* for such an answer, is_task_done confirms it and a "complete" row is
\* appended; no other answer starts the finalization in that attempt.
C1_DoneAnswerStartsFinalization ==
  [][ pc = "invoke" =>
        /\ (answer'.status = "done") <=>
             (Len(RowsOf(task, "complete"))' = Len(RowsOf(task, "complete")) + 1)
        /\ (answer'.status # "done") =>
             (Len(RowsOf(task, "complete"))' = Len(RowsOf(task, "complete")))
        /\ (answer'.status = "done") => Entered(task, "attempt")' ]_vars

C1_Witness ==
  /\ answer.status = "done"
  /\ Entered(task, "attempt")
  /\ Len(RowsOf(task, "complete")) >= 1

\* C2: complete_task is entered only with the persisted status done, at the
\* call in the attempt and at the late confirmation after the attempts.
C2_CompleteOnlyWhenDone ==
  \A c \in completions : c.status = "done"

C2_Witness ==
  \E t \in Tasks : Entered(t, "attempt") /\ Entered(t, "late")

\* C3 (as stated): a task for which an attempt ended with the persisted
\* status done has been finalized by that attempt: it has left
\* /Needs_Action for /Done, with a "complete" row and a success audit log.
C3_DoneTaskIsRelocated ==
  \A t \in Present :
    Entered(t, "attempt") =>
      /\ Where(t) = "Done"
      /\ StatusOf(t) = "done"
      /\ Len(RowsOf(t, "complete")) >= 1
      /\ Len(LogsFor(t, "success", "task-completion")) >= 1

\* C4 (as stated): when a poll begins, a task is in /Done iff its persisted
\* status is done; no task with status done waits in /Needs_Action.
C4_LocationMatchesStatus ==
  pc = "poll" =>
    \A t \in Present : (Where(t) = "Done") <=> (Lower(StatusOf(t)) = "done")

\* C5: a task is marked failed exactly when its completion loop ran out, which
\* is after MAX_COMPLETION_CYCLES cycles, never fewer or more, and then
\* exactly one escalation, of severity E3, exists for it; a task the engine
\* left without a tier halt and without its status ever being done is failed.
C5_CycleBudget ==
  \A t \in Present :
    /\ cycles_begun[t] <= MAX_COMPLETION_CYCLES
    /\ (StatusOf(t) = "failed") <=> (disposition[t] = "exhausted")
    /\ (pc = "exhausted" /\ t = task) => cycles_begun[t] = MAX_COMPLETION_CYCLES
    /\ StatusOf(t) = "failed" =>
         /\ cycles_begun[t] = MAX_COMPLETION_CYCLES
         /\ Where(t) = "Needs_Action"
         /\ Len(EscalationsFor(t)) = 1
         /\ EscalationsFor(t)[1].severity = "E3"
    /\ (disposition[t] \notin {"none", "halted"} /\ ~ \E c \in completions : c.task = t)
         => StatusOf(t) = "failed"

C5_Witness ==
  \E t \in Present :
    /\ StatusOf(t) = "failed"
    /\ cycles_begun[t] = MAX_COMPLETION_CYCLES
    /\ ~ \E c \in completions : c.task = t
    /\ Len(EscalationsFor(t)) = 1

\* Every attempt made on t so far ended with the Executor answering failed:
\* no exception was logged, no row was appended, no tier halt.
OnlyFailedAnswers(t) ==
  /\ Len(LogsFor(t, "failed", "task-error")) = 0
  /\ \A b \in Range(HistoryOf(FileOf(t))) : b.action = "triage"
  /\ invocations[t] > 0 => answer.status = "failed"

\* C6: while the Executor has failed on every call, the calls made for the
\* task number (MAX_RETRIES + 1) for each finished cycle plus the attempts
\* finished in the current one, so a cycle ends only with its
\* (MAX_RETRIES + 1)-th failed attempt.
C6_AttemptBudget ==
  (pc \in {"attempt", "invoke", "cycle_end", "exhausted"} /\ OnlyFailedAnswers(task)) =>
    /\ attempt <= MAX_RETRIES + 1
    /\ pc \in {"attempt", "invoke"} =>
         invocations[task] = (cycle - 1) * (MAX_RETRIES + 1) + (attempt - 1)
    /\ pc \in {"cycle_end", "exhausted"} =>
         /\ attempt = MAX_RETRIES + 1
         /\ invocations[task] = cycle * (MAX_RETRIES + 1)

C6_Witness ==
  /\ pc = "attempt"
  /\ cycle = 2
  /\ attempt = 1
  /\ OnlyFailedAnswers(task)
  /\ invocations[task] = MAX_RETRIES + 1

\* The task's original content holds a Tier-3 keyword.
Tier3Content(t) == KeywordsIn(FileOf(t).body[1].text) \cap TIER_3_KEYWORDS # {}

\* C7: for a task whose content holds a Tier-3 keyword the Executor is never
\* invoked, and once the engine has left it the task is in /Needs_Action
\* with status blocked and exactly one escalation, of severity E3.
C7_Tier3Halt ==
  \A t \in Present :
    Tier3Content(t) =>
      /\ invocations[t] = 0
      /\ disposition[t] \in {"none", "halted"}
      /\ disposition[t] = "none" => Len(EscalationsFor(t)) = 0
      /\ disposition[t] = "halted" =>
           /\ Where(t) = "Needs_Action"
           /\ StatusOf(t) = "blocked"
           /\ Len(EscalationsFor(t)) = 1
           /\ EscalationsFor(t)[1].severity = "E3"

C7_Witness ==
  \E t \in Present :
    /\ Tier3Content(t)
    /\ KeywordsIn(FileOf(t).body[1].text) \cap TIER_2_KEYWORDS # {}
    /\ disposition[t] = "halted"
    /\ pc = "poll"

\* C8 (as stated): every tier halt, of Tier 2 as of Tier 3, leaves an
\* escalation of severity E3.
C8_EveryHaltIsE3 ==
  \A t \in Present :
    StatusOf(t) = "blocked" =>
      \A e \in Range(EscalationsFor(t)) : e.severity = "E3"

Tier2Reason == "Tier 2 - requires human approval"
Tier3Reason == "Tier 3 - requires human approval"

\* C8 (amended): a tier halt leaves the task in /Needs_Action with status
\* blocked, a blocked_reason naming the tier, and exactly one escalation,
\* whose severity is E3 for Tier 3 and E2 for Tier 2.
C8_HaltSeverityByTier ==
  \A t \in Present :
    /\ (StatusOf(t) = "blocked") <=> (disposition[t] = "halted")
    /\ StatusOf(t) = "blocked" =>
         /\ Where(t) = "Needs_Action"
         /\ Get(FileOf(t).meta, "blocked_reason", Absent) \in {Tier2Reason, Tier3Reason}
         /\ (Get(FileOf(t).meta, "blocked_reason", Absent) = Tier3Reason)
              <=> (ContentKeywords(FileOf(t)) \cap TIER_3_KEYWORDS # {})
         /\ Len(EscalationsFor(t)) = 1
         /\ EscalationsFor(t)[1].severity =
              (IF Get(FileOf(t).meta, "blocked_reason", Absent) = Tier2Reason
                 THEN "E2" ELSE "E3")

C8_Witness ==
  \E t \in Present :
    /\ StatusOf(t) = "blocked"
    /\ Get(FileOf(t).meta, "blocked_reason", Absent) = Tier2Reason
    /\ EscalationsFor(t)[1].severity = "E2"

\* C9: whenever the Executor is about to be invoked, the task file as read
\* for this attempt, with everything the engine wrote into it in earlier
\* cycles, holds no Tier-2 and no Tier-3 keyword.
C9_TierGateEveryAttempt ==
  pc = "invoke" =>
    ContentKeywords(needs_action[task]) \cap (TIER_2_KEYWORDS \cup TIER_3_KEYWORDS) = {}

C9_Witness ==
  \E t \in Present :
    /\ disposition[t] = "halted"
    /\ invocations[t] > 0
    /\ KeywordsIn(Get(FileOf(t).meta, "remaining_work", "")) # {}

\* C10: a task has exactly one escalation once its run ended by cycle
\* exhaustion or by a tier halt, and none otherwise: none while it runs,
\* whatever attempts failed and were retried and whatever cycles ended
\* in progress, and none when its run ended with status done.
C10_EscalationCount ==
  /\ \A t \in Tasks :
       Len(EscalationsFor(t)) = (IF disposition[t] \in {"exhausted", "halted"} THEN 1 ELSE 0)
  /\ Len(escalations) = Cardinality({ t \in Tasks : disposition[t] \in {"exhausted", "halted"} })

C10_Witness ==
  \E t1, t2 \in Present :
    /\ disposition[t1] = "halted"
    /\ disposition[t2] = "exhausted"
    /\ Len(LogsFor(t2, "failed", "task-error")) > 0
    /\ Len(escalations) = 2

IsPrefix(a, b) == Len(a) <= Len(b) /\ SubSeq(b, 1, Len(a)) = a

\* C11: whatever the engine does to a task file (frontmatter updates, rows
\* and result sections appended, the move to /Done), the rows of its
\* Transition History before the step are a prefix of the rows after it:
\* no row is rewritten, reordered or removed.
C11_HistoryMonotonic ==
  [][ \A t \in Tasks :
        (t \in Present /\ t \in Present') =>
          IsPrefix(HistoryOf(FileOf(t)), HistoryOf(FileOf(t))') ]_vars

C11_Witness ==
  \E t \in Present :
    LET body == FileOf(t).body
    IN  /\ Len(HistoryOf(FileOf(t))) >= 4
        /\ Len(RowsOf(t, "reprocess (cycle 1)")) = 1
        /\ \E i, j \in 1..Len(body) :
              i < j /\ body[i].kind = "result" /\ body[j].kind = "row"
        /\ "started" \in DOMAIN FileOf(t).meta

\* C12 (as stated): every step that changes a task's persisted status
\* appends exactly one row to its Transition History.
C12_StatusChangeHasRecord ==
  [][ \A t \in Tasks :
        (t \in Present /\ t \in Present' /\ StatusOf(t)' # StatusOf(t)) =>
          Len(HistoryOf(FileOf(t))') = Len(HistoryOf(FileOf(t))) + 1 ]_vars

\* C13 (as stated): a task whose status was written as done (complete_task
\* wrote it together with the "complete" row) has status done ever after.
C13_DoneIsTerminal ==
  \A t \in Present :
    Len(RowsOf(t, "complete")) >= 1 => StatusOf(t) = "done"

\* The step is an attempt that failed: the Executor answered failed, or an
\* exception was caught (the handler logs it as task-error).
ExceptionCaught ==
  /\ pc = "invoke"
  /\ Len(LogsFor(task, "failed", "task-error"))' = Len(LogsFor(task, "failed", "task-error")) + 1

AttemptFailed ==
  /\ pc = "invoke"
  /\ answer'.status = "failed" \/ ExceptionCaught

\* C14 (as stated): after a failed attempt with an attempt left in the cycle
\* the status is ready and the next attempt of the same cycle begins; with
\* no attempt left the status is not reset, the attempts of the cycle are
\* over and the engine goes on to the next cycle (to the exhaustion handling
\* after the last cycle).
C14_RetryReset ==
  [][ /\ (AttemptFailed /\ attempt < MAX_RETRIES + 1) =>
            /\ StatusOf(task)' = "ready"
            /\ pc' = "attempt" /\ attempt' = attempt + 1 /\ cycle' = cycle
      /\ (AttemptFailed /\ attempt = MAX_RETRIES + 1) =>
            /\ StatusOf(task)' # "ready"
            /\ pc' = "cycle_end" /\ cycle' = cycle
      /\ pc = "cycle_end" =>
            \/ cycle < MAX_COMPLETION_CYCLES /\ pc' = "attempt" /\ cycle' = cycle + 1 /\ attempt' = 1
            \/ cycle = MAX_COMPLETION_CYCLES /\ pc' = "exhausted" ]_vars

\* C15 (as stated): an attempt that ends with a caught exception leaves the
\* task file, the counters and the position of the loop exactly as an
\* Executor answer of failed at the same attempt would.
C15_ExceptionAsFailedOutcome ==
  [][ ExceptionCaught =>
        /\ needs_action' =
             (IF attempt < MAX_RETRIES + 1
                THEN update_task_frontmatter(needs_action, task, [k \in {"status"} |-> "ready"])
                ELSE needs_action)
        /\ cycle' = cycle
        /\ IF attempt < MAX_RETRIES + 1
             THEN pc' = "attempt" /\ attempt' = attempt + 1
             ELSE pc' = "cycle_end" /\ attempt' = attempt ]_vars

\* Where a file name stands in the directory listing, and in a sequence.
ListingIndex(t) == CHOOSE i \in 1..Len(TaskNames) : TaskNames[i] = t
PositionIn(seq, t) == CHOOSE i \in 1..Len(seq) : seq[i] = t

\* The rank the priority field stands for: P0 < P1 < P2 < P3, a missing or
\* unknown priority ranking as P2.
RankOfPriority(file) ==
  LET p == Get(file.meta, "priority", Absent)
  IN  CASE p = "P0" -> 0 [] p = "P1" -> 1 [] p = "P3" -> 3 [] OTHER -> 2

\* C16: what a poll returned is in non-decreasing priority rank, files of
\* equal rank in the order the directory listed them; the tasks passed to
\* execute_with_retry in that poll were passed in the order of the returned
\* list, and at the end of the poll each returned task was passed on unless
\* the session had it as failed.
C16_PriorityOrder ==
  last_poll.polled =>
    LET r  == last_poll.result
        st == last_poll.store
    IN  /\ \A i, j \in 1..Len(r) :
              i < j =>
                \/ RankOfPriority(st[r[i]]) < RankOfPriority(st[r[j]])
                \/ /\ RankOfPriority(st[r[i]]) = RankOfPriority(st[r[j]])
                   /\ ListingIndex(r[i]) < ListingIndex(r[j])
        /\ Range(dispatched) \subseteq Range(r)
        /\ \A i, j \in 1..Len(dispatched) :
              i < j => PositionIn(r, dispatched[i]) < PositionIn(r, dispatched[j])
        /\ (pc = "dispatch" /\ pending = << >>) =>
              Range(r) \subseteq Range(dispatched) \cup session_failed

C16_Witness ==
  /\ last_poll.polled
  /\ Listed(4) \subseteq DOMAIN last_poll.store
  /\ Get(last_poll.store["a.md"].meta, "priority", Absent) = "urgent"
  /\ Get(last_poll.store["b.md"].meta, "priority", Absent) = "P3"
  /\ Get(last_poll.store["c.md"].meta, "priority", Absent) = Absent
  /\ Get(last_poll.store["d.md"].meta, "priority", Absent) = "P0"
  /\ dispatched = << "d.md", "a.md", "c.md", "b.md" >>

C19_SessionFailureSet ==
  [][ /\ pc' \in {"poll", "dispatch"} =>
            \A t \in started' :
              disposition'[t] \in {"halted", "exhausted", "raised"} => t \in session_failed'
      /\ (pc = "dispatch" /\ pc' = "attempt") => task' \notin session_failed ]_vars

C19_Witness ==
  /\ pc = "dispatch"
  /\ pending = << >>
  /\ \E t \in Range(last_poll.result) :
       /\ t \in session_failed
       /\ t \notin Range(dispatched)
       /\ disposition[t] = "exhausted"
  /\ \E t \in session_failed : disposition[t] = "halted"

\* C20 (as stated): after a restart session_failed is empty, and by the end
\* of the new run's poll every task that failed or was blocked in the run
\* before and is still in /Needs_Action has been passed to
\* execute_with_retry again.
C20_RestartRedispatchesFailed ==
  /\ (restarts > 0 /\ ~ last_poll.polled) => session_failed = {}
  /\ (restarts > 0 /\ last_poll.polled /\ pc = "dispatch" /\ pending = << >>) =>
       \A t \in prior_failed \cap DOMAIN needs_action :
         disposition[t] \in {"halted", "exhausted"} => t \in started

\* C20 (amended): after a restart session_failed is empty; a task of the
\* earlier run's session_failed is not returned by the new run's poll while
\* its status is still failed or blocked; one that the poll returns is passed
\* to execute_with_retry in that poll, and this happens only to a task the
\* operator has set back to ready.
C20_RestartRedispatchesReadyOnly ==
  /\ (restarts > 0 /\ ~ last_poll.polled) => session_failed = {}
  /\ (restarts > 0 /\ last_poll.polled) =>
       \A t \in prior_failed \cap DOMAIN last_poll.store :
         /\ Get(last_poll.store[t].meta, "status", Absent) \in {"failed", "blocked"}
              => t \notin Range(last_poll.result)
         /\ (t \in Range(last_poll.result) /\ pc = "dispatch" /\ pending = << >>)
              => t \in started
         /\ t \in started => edits > 0

C20_Witness ==
  /\ restarts > 0
  /\ pc = "dispatch"
  /\ pending = << >>
  /\ \E t1, t2 \in prior_failed :
       /\ t1 \in started
       /\ t2 \notin started
       /\ t2 \in DOMAIN needs_action
       /\ Get(needs_action[t2].meta, "status", Absent) \in {"failed", "blocked"}

\* C21: a task whose persisted status is failed or blocked is never retried
\* by the scheduler itself: while the file says so, no completion cycle
\* begins for it, the Executor is not invoked for it, it is in no pending
\* list, and only the Human Operator's edit changes its status; this holds
\* in the run that gave up and in a run started later.
C21_NoAutoRetry ==
  [][ \A t \in DOMAIN needs_action :
        Get(needs_action[t].meta, "status", Absent) \in {"failed", "blocked"} =>
          /\ invocations'[t] = invocations[t]
          /\ cycles_begun'[t] = cycles_begun[t]
          /\ t \notin Range(pending')
          /\ (needs_action'[t].meta # needs_action[t].meta => edits' = edits + 1) ]_vars

\* C21's case has happened: the Executor failed one task through all its
\* cycles and the gate blocked another; the scheduler was started again and
\* has polled, and neither task was dispatched.
C21_Witness ==
  \E t1, t2 \in DOMAIN needs_action :
    /\ Get(needs_action[t1].meta, "status", Absent) = "failed"
    /\ invocations[t1] >= MAX_COMPLETION_CYCLES
    /\ Get(needs_action[t2].meta, "status", Absent) = "blocked"
    /\ restarts >= 1
    /\ last_poll.polled
    /\ pc = "dispatch"
    /\ pending = << >>
    /\ started = {}

\* C22: a fault never ends the scheduler loop.  An exception that leaves
\* execute_with_retry puts the task into session_failed and the for loop
\* goes on with the rest of the same pending list; a poll that raises is
\* followed by the poll sleep and the next poll; the process ends only at
\* the pre-flight check or by a manual interrupt; and while it has not
\* ended the loop's next step is always possible.
C22_FaultIsolation ==
  /\ [][ /\ (disposition'[task] = "raised" /\ disposition[task] # "raised") =>
              /\ pc' = "dispatch"
              /\ pending' = pending
              /\ task \in session_failed'
         /\ faults' # faults => pc' = "dispatch" /\ pending' = << >>
         /\ (pc' \in Ended /\ pc \notin Ended) =>
              \/ pc = "start"
              \/ interrupted' /\ ~ interrupted ]_vars
  /\ [] /\ (pc = "dispatch" /\ pending # << >>) => ENABLED Dispatch
        /\ InPollSleep => ENABLED Sleep
        /\ pc = "poll" => ENABLED Poll

\* C22's case has happened: the first poll raised, the next poll returned
\* two tasks, the first of them left execute_with_retry by an exception and
\* the second one was dispatched after it.
C22_Witness ==
  \E t1, t2 \in Tasks :
    /\ Len(logs) >= 2
    /\ logs[2].status = "partial"
    /\ dispatched = << t1, t2 >>
    /\ disposition[t1] = "raised"
    /\ t1 \in session_failed
    /\ pc = "attempt"
    /\ task = t2
    /\ ~ interrupted

\* C23 (as stated): a manual interrupt that arrives at any point of the
\* loop (while listing, in an attempt, in the cooldown, in the poll sleep)
\* is followed by exactly one more audit log, the shutdown record, and the
\* clean exit; and once the loop has started only a manual interrupt ends
\* the process.
C23_InterruptLogsThenStops ==
  [][ /\ (interrupted' /\ ~ interrupted) =>
           /\ pc' = "stopped"
           /\ logs' = write_audit_log(logs, "orchestrator", "success", "orchestrator-lifecycle")
      /\ (pc' \in Ended /\ pc \notin Ended \cup {"start"}) => interrupted' ]_vars

\* C24: without Company_Handbook.md at start-up the process writes one audit
\* log (failed, system-critical) and exits: it never polls, dispatches no
\* task, begins no cycle, invokes nothing and leaves every task file ready;
\* and an exit that no interrupt caused is this one.
C24_StartupGate ==
  /\ [] ( ~ handbook =>
            /\ pc \in {"start", "exited"}
            /\ ~ last_poll.polled
            /\ started = {}
            /\ \A t \in Tasks : invocations[t] = 0 /\ cycles_begun[t] = 0
            /\ \A t \in DOMAIN needs_action : needs_action[t].meta["status"] = "ready"
            /\ escalations = << >>
            /\ logs = IF pc = "start" THEN << >>
                      ELSE << [task_ref |-> "orchestrator", status |-> "failed",
                               category |-> "system-critical"] >> )
  /\ [] ( (pc \in Ended /\ ~ interrupted) => (pc = "exited" /\ ~ handbook) )
  /\ [][ (pc = "start" /\ ~ handbook) => pc' = "exited" ]_vars

\* C24's case has happened: the process exited at the pre-flight check, two
\* ready tasks waiting in /Needs_Action.
C24_Witness ==
  /\ pc = "exited"
  /\ ~ handbook
  /\ Len(logs) = 1
  /\ logs[1].category = "system-critical"
  /\ Cardinality(DOMAIN needs_action) = 2

\* The path a call returned is safe for the directory it was asked about:
\* the plain name if that was free, else the first free suffix among
\* _2 .. _100, never an existing path; Overflow exactly when the plain name
\* and all of _2 .. _100 exist.
SafeFor(directory, filename, path) ==
  /\ path = Overflow <=> \A c \in 1..100 : << filename, c >> \in DOMAIN directory
  /\ path # Overflow =>
       /\ path \notin DOMAIN directory
       /\ path[1] = filename
       /\ path[2] \in 1..100
       /\ \A c \in 1..(path[2] - 1) : << filename, c >> \in DOMAIN directory

\* What was in the directory `before` is in `after` unchanged.
Keeps(before, after) ==
  \A x \in DOMAIN before : x \in DOMAIN after /\ after[x] = before[x]

\* C25: get_safe_path and the watcher's get_safe_filename return the plain
\* name if it is free, else the first free name among stem_2 .. stem_100,
\* never an existing path; when all of them exist they fail and nothing is
\* created; so a relocation into /Done and the creation of an escalation
\* note add at most the one new file and leave every existing file as it was.
C25_NoOverwrite ==
  [][ /\ ret' # ret =>
           /\ ret'.fn = "complete_task" =>
                /\ SafeFor(done_dir, ret'.filename, ret'.path)
                /\ DOMAIN done_dir' = (DOMAIN done_dir) \cup ({ret'.path} \ {Overflow})
                /\ ret'.path = Overflow => needs_action' = needs_action
           /\ ret'.fn \in {"get_safe_path", "get_safe_filename"} =>
                /\ SafeFor(bench, ret'.filename, ret'.path)
                /\ DOMAIN bench' = (DOMAIN bench) \cup ({ret'.path} \ {Overflow})
      /\ Keeps(done_dir, done_dir')
      /\ Keeps(bench, bench')
      /\ get_safe_filename(bench, NoteName) = get_safe_path(bench, NoteName) ]_vars

\* C25's case has happened: with the plain name and _3 taken a note was
\* created as _2, and the next one as _4.
C25_Witness ==
  /\ ret.fn \in {"get_safe_path", "get_safe_filename"}
  /\ ret.path = << NoteName, 4 >>
  /\ ret.calls = 2
  /\ bench[<< NoteName, 1 >>] = Earlier
  /\ bench[<< NoteName, 2 >>] = NewNote
  /\ bench[<< NoteName, 3 >>] = Earlier
  /\ bench[<< NoteName, 4 >>] = NewNote
  /\ << NoteName, 5 >> \notin DOMAIN bench

\* The paths in /Done under which the file of task t is found.
DonePathsOf(t) == { p \in DOMAIN done_dir : p[1] = t /\ done_dir[p] = Finished }

C29_DetectTier ==
  /\ [] ( ret.fn = "detect_tier" =>
            LET file  == needs_action[TaskNames[1]]
                found == ContentKeywords(file)
                t3    == found \cap TIER_3_KEYWORDS # {}
                t2    == found \cap TIER_2_KEYWORDS # {}
                t1    == Get(file.meta, "classification", Absent) \in {"plan", "skill"}
            IN  /\ ret.tier \in 0..3
                /\ ret.tier = 3 <=> t3
                /\ ret.tier = 2 <=> (~ t3 /\ t2)
                /\ ret.tier = 1 <=> (~ t3 /\ ~ t2 /\ t1)
                /\ ret.tier = 0 <=> (~ t3 /\ ~ t2 /\ ~ t1) )
  /\ [][ /\ ret' # ret => UNCHANGED << needs_action, done_dir, escalations, logs >>
         /\ (ret.fn = "detect_tier" /\ ret'.fn = "detect_tier") => ret'.tier = ret.tier ]_vars

\* C29's case has happened: detect_tier was called twice on a plan whose
\* text holds a Tier-2 and a Tier-3 keyword and returned 3.
C29_Witness ==
  /\ ret.fn = "detect_tier"
  /\ ret.calls = 2
  /\ ret.tier = 3
  /\ needs_action[TaskNames[1]].meta["classification"] = "plan"
  /\ { "deploy", "publish" } \subseteq ContentKeywords(needs_action[TaskNames[1]])

\* C27 (as stated): update_task_frontmatter merges: afterwards every key of
\* updates has its new value, every other key has the value it had, no key
\* is gone and the body is the same, for every file the engine itself has
\* written, values taken from the Executor's answer included.
C27_UpdateMerges ==
  ret.fn = "update_task_frontmatter" =>
    LET before == parse_frontmatter_str(ret.before)
        after  == parse_frontmatter_str(bench)
        given  == { ret.updates[i][1] : i \in 1..Len(ret.updates) }
    IN  /\ \A i \in 1..Len(ret.updates) :
             GetSeq(after.metadata, ret.updates[i][1], << Absent >>) = ret.updates[i][2]
        /\ \A i \in 1..Len(before.metadata) :
             before.metadata[i][1] \notin given =>
               GetSeq(after.metadata, before.metadata[i][1], << Absent >>) = before.metadata[i][2]
        /\ after.body = before.body

\* C28 (as stated): for every x that render_frontmatter gives for a flat
\* record of strings, rendering what parse_frontmatter reads from x gives x
\* again, and parse_frontmatter reads the record that was rendered.
C28_RoundTrip ==
  ret.fn = "parse_frontmatter" =>
    /\ ret.again = ret.x
    /\ ret.metadata = bench
    /\ ret.body = << >>



\* C30: an inbox file that fails validation (extension, size, encoding,
\* emptiness, secret) yields its escalation note once the watcher has
\* processed it and never a task; the note is not eligible for dispatch, the
\* scheduler never sets it in_progress and never passes it to the Executor.
C30_RejectedFileOnlyEscalates ==
  \A name \in DOMAIN inbox :
    LET file == inbox[name]
        note == NoteFilename(file)
    IN  Rejection(file).rejected =>
          /\ TaskFilename(file) \notin DOMAIN needs_action
          /\ (note \in DOMAIN needs_action) <=> (<< name, file.mtime >> \in processed)
          /\ note \in DOMAIN needs_action =>
               /\ ~Eligible(needs_action[note])
               /\ Get(needs_action[note].meta, "status", Absent) # "in_progress"
               /\ cycles_begun[note] = 0
               /\ invocations[note] = 0



\* C31: when the scheduler process has stopped (manual interrupt or crash)
\* while execute_with_retry was running on a task, the task's file is one
\* that get_pending_tasks returns, so that a relaunched scheduler dispatches
\* it again; in particular it is not left with status in_progress.
C31_StoppedTaskIsResumable ==
  (/\ pc \in {"stopped", "crashed"}
   /\ task \in started
   /\ task \in DOMAIN needs_action
   /\ disposition[task] = "none")
  => /\ Eligible(needs_action[task])
     /\ Get(needs_action[task].meta, "status", Absent) # "in_progress"



\* C32: whatever the Executor answers, and however many polls the scheduler
\* makes, the Executor is invoked for one task at most
\* MAX_COMPLETION_CYCLES * (MAX_RETRIES + 1) times.
C32_InvocationBound ==
  \A t \in DOMAIN invocations :
    invocations[t] <= MAX_COMPLETION_CYCLES * (MAX_RETRIES + 1)

\* Reached: a task invoked the full 30 times, failed by exhaustion, and the
\* scheduler has polled again since.
C32_Witness ==
  \E t \in DOMAIN invocations :
    /\ invocations[t] = MAX_COMPLETION_CYCLES * (MAX_RETRIES + 1)
    /\ disposition[t] = "exhausted"
    /\ pc = "dispatch"
    /\ t \notin Range(last_poll.result)
    /\ t \in DOMAIN last_poll.store
    /\ Get(last_poll.store[t].meta, "status", Absent) = "failed"



\* C33 (its first part, as stated): when the Executor returns in_progress in
\* a cycle, what _invoke_single_cycle stores can be read back from the file:
\* status in_progress, remaining_work as the Executor gave it, and last_cycle
\* the number of the cycle.
C33_InProgressPersisted ==
  (/\ ret.fn = "update_task_frontmatter"
   /\ GetSeq(ret.updates, Key("remaining_work"), << Absent >>) # << Absent >>)
  => LET after == parse_frontmatter_str(bench).metadata
     IN  /\ GetSeq(after, Key("status"), << Absent >>) = Key("in_progress")
         /\ GetSeq(after, Key("remaining_work"), << Absent >>)
              = GetSeq(ret.updates, Key("remaining_work"), << Absent >>)
         /\ GetSeq(after, Key("last_cycle"), << Absent >>)
              = GetSeq(ret.updates, Key("last_cycle"), << Absent >>)



\* C34 (as stated): a task file whose status is done stays done until the
\* end-of-cycle check (the engine does not write another status over it), and
\* when the attempt loop of a cycle ends with the status done, the engine
\* finalizes the task there (the file leaves /Needs_Action for /Done) and
\* starts no further cycle.
C34_LateConfirmation ==
  /\ [][ (/\ pc \in {"attempt", "invoke"}
          /\ task \in DOMAIN needs_action
          /\ StatusOf(task) = "done")
         => (task \in DOMAIN needs_action' => StatusOf(task)' = "done") ]_vars
  /\ [][ (/\ pc = "cycle_end"
          /\ task \in DOMAIN needs_action
          /\ StatusOf(task) = "done")
         => (/\ Where(task)' = "Done"
             /\ disposition'[task] = "completed"
             /\ cycles_begun'[task] = cycles_begun[task]
             /\ pc' = "post") ]_vars



\* C35: during one watcher run every version (name, mtime) of an inbox file
\* is passed to process_file at most once; it is in `processed` from then on,
\* whether process_file returned or raised; and no version that was in /Inbox
\* when the watcher started is ever passed to process_file.
C35_WatcherDedup ==
  /\ [](\A i, j \in 1..Len(handled) : handled[i] = handled[j] => i = j)
  /\ [](\A i \in 1..Len(handled) : handled[i] \in processed /\ handled[i][2] # 0)
  /\ [][ /\ processed \subseteq processed'
         /\ handled' # handled =>
              /\ Len(handled') = Len(handled) + 1
              /\ handled'[Len(handled')] \notin processed
              /\ Len(logs') > Len(logs) ]_vars

\* Reached: a file that was there at start-up has been left alone, a later
\* version of it was processed; another file's processing raised and the
\* file was not passed to process_file again.
C35_Witness ==
  /\ Len(handled) = 2
  /\ \E a, b \in DOMAIN inbox :
       /\ a # b
       /\ << a, 0 >> \in processed
       /\ << a, 0 >> \notin Range(handled)
       /\ << a, 1 >> \in Range(handled)
       /\ << b, inbox[b].mtime >> \in Range(handled)
       /\ Len(LogsFor(b, "failed", "watcher-error")) = 1
  /\ ~ ENABLED ProcessFile



\* C36: whatever the Executor does on each call (done, in_progress, failed,
\* an exception), execute_with_retry comes to an end for every task it was
\* started on, and once it has ended (by return or by an exception that
\* leaves it) the task's persisted status is done, blocked or failed.
C36_TerminalDisposition ==
  /\ \A t \in Listed(1) : [](t \in started => <>(disposition[t] # "none"))
  /\ [](\A t \in Present :
          disposition[t] # "none" => StatusOf(t) \in {"done", "blocked", "failed"})
  /\ [](\A t \in Present :
          (pc \in {"attempt", "invoke", "cycle_end", "exhausted"} /\ t = task)
            <=> (t \in started /\ disposition[t] = "none"))

\* Reached: after an answer of in_progress and then answers of done,
\* execute_with_retry has ended by the exception of the late check, the
\* task's status being done and its file still in /Needs_Action.
C36_Witness ==
  \E u \in Present :
    /\ disposition[u] = "raised"
    /\ StatusOf(u) = "done"
    /\ Where(u) = "Needs_Action"
    /\ Len(RowsOf(u, "complete")) > 1
    /\ Len(RowsOf(u, "reprocess (cycle 1)")) = 1
    /\ pc = "poll"


\* C37 (as stated): a task is finalized at most once in a run: its file never
\* holds more than one "complete" row nor more than one Orchestrator Result
\* section, and once complete_task was entered for it from an attempt whose
\* answer was done, with the persisted status done, the Executor is not
\* invoked for it again.
C37_FinalizedOnce ==
  /\ [](\A t \in Present :
          /\ Len(RowsOf(t, "complete")) <= 1
          /\ Len(SelectSeq(FileOf(t).body, LAMBDA b : b.kind = "result")) <= 1)
  /\ [][ \A t \in DOMAIN invocations :
           (\E c \in completions : c.task = t /\ c.site = "attempt" /\ c.status = "done")
             => invocations'[t] = invocations[t] ]_vars


\* C38 (as stated): with the orchestrator and the watcher running as separate
\* processes on /Needs_Action, no step of either replaces a note the other
\* has written: a file that holds one process's note keeps its content.
C38_NoOverwriteUnderConcurrency ==
  [][ \A path \in DOMAIN bench :
        bench[path] \in {EscalationFile, RejectionFile} => bench'[path] = bench[path] ]_vars


\* C39 (as stated): the Executor is never invoked while Company_Handbook.md
\* is absent: a step in which invoke_claude is called for a task is taken
\* only in a state in which the handbook exists.
C39_NoInvocationWithoutHandbook ==
  [][ (\E t \in DOMAIN invocations : invocations'[t] > invocations[t]) => handbook ]_vars


\* A file of that store is a task with status ready, the status read as
\* get_pending_tasks reads it: ready when the frontmatter names none.
ReadyTask(files, t) ==
  /\ t \in DOMAIN files
  /\ Get(files[t].meta, "type", Absent) # "escalation"
  /\ Get(files[t].meta, "status", "ready") = "ready"

\* C40: when a poll pass is over, every task that was ready in the store the
\* poll listed, and is not in session_failed, has been passed to
\* execute_with_retry in that pass, whatever became of the tasks before it;
\* and a ready task that is not in session_failed, the watcher's new ones
\* included, is passed to execute_with_retry in the end.
C40_NoStarvation ==
  /\ [](InPollSleep /\ last_poll.polled =>
          \A t \in DOMAIN last_poll.store :
            ReadyTask(last_poll.store, t) /\ t \notin session_failed
              => t \in Range(dispatched))
  /\ \A t \in WatchNames :
       [](ReadyTask(needs_action, t) /\ t \notin session_failed
            => <>(t \in Range(dispatched)))

\* Reached: a poll listed two ready files the watcher had created; the first
\* one's execute_with_retry ended by exhaustion or by an exception, the second
\* was passed to execute_with_retry in the same pass, and the pass is over.
C40_Witness ==
  \E t, u \in DOMAIN needs_action :
    /\ t # u
    /\ ReadyTask(last_poll.store, t)
    /\ ReadyTask(last_poll.store, u)
    /\ dispatched = << t, u >>
    /\ disposition[t] \in {"raised", "exhausted"}
    /\ t \in session_failed
    /\ InPollSleep

=============================================================================
